---- MODULE Spec2Model ----
(***************************************************************************)
(* Real-time event distribution and public-tunnel lifecycle of the         *)
(* attendance journal.                                                     *)
(*                                                                         *)
(*   RealtimeEventBus      src/utils/journal_realtime.py                   *)
(*   JournalTunnelManager  src/utils/journal_tunnel.py                     *)
(*                                                                         *)
(* SpecBus drives the event bus with a bounded pool of threads calling     *)
(* get_version / bump / wait_for_change.  SpecTunnel drives the tunnel     *)
(* manager with operator threads, the rotation scheduler, the reconnect    *)
(* workers, the reader threads and the child processes.                    *)
(***************************************************************************)
EXTENDS Integers, Sequences, FiniteSets, TLC

(***************************************************************************)
(* RealtimeEventBus.  Bounds of the bus model.                             *)
(***************************************************************************)
NumBumpers == 2

NumWaiters == 1

MaxBumps == 2

MaxNow == 1

Bumpers == 1..NumBumpers

Waiters == (NumBumpers + 1)..(NumBumpers + NumWaiters)

NoThread == 0

(* Raw key arguments as Python values: None, "" and ordinary strings.      *)
PyNone == [py |-> "None"]

PyStr(s) == [py |-> "str", s |-> s]

RawKeys == {PyNone, PyStr(""), PyStr("tunnel")}

(* str(key or ""): None and "" both become "". *)
SafeKey(raw) == IF raw.py = "None" THEN "" ELSE raw.s

SafeKeys == {SafeKey(r) : r \in RawKeys}

(* float(timeout or 0) in clock ticks: a falsy timeout and a positive one. *)
Timeouts == {0, 1}

LastVersions == 0..MaxBumps

VARIABLES
    versions,      \* self._versions: dict key -> int (a function on the keys present)
    condOwner,     \* the thread inside "with self._cond:", or NoThread
    waiters,       \* threads blocked inside self._cond.wait(), not yet woken
    now,           \* time.monotonic(), in ticks
    bpc,           \* per thread: position in the bus method it executes
    bkey,          \* per thread: safe_key of the running call
    blast,         \* per waiter: int(last_version) of wait_for_change
    bdeadline,     \* per waiter: deadline of wait_for_change
    bcur,          \* per bumper: the value read by self._versions.get under the lock
    bret,          \* per waiter: value returned by its last get_version / wait_for_change
    bchained,      \* per waiter: the wait was started with the version its own get_version read
    bumpedSince,   \* per waiter: a bump of its key returned after its get_version read
    bumpsStarted,  \* per key: bump calls that entered
    bumpsReturned  \* per key: bump calls that have returned

busVars == <<versions, condOwner, waiters, now, bpc, bkey, blast, bdeadline, bcur,
             bret, bchained, bumpedSince, bumpsStarted, bumpsReturned>>

(* self._versions.get(safe_key, 0) *)
LookupDefaultOne(vs, k) == IF k \in DOMAIN vs THEN vs[k] ELSE 1

Lookup(vs, k) == IF k \in DOMAIN vs THEN vs[k] ELSE 0

(* self._versions[safe_key] = value *)
StoreReplacingDict(vs, k, v) == [x \in {k} |-> v]

Store(vs, k, v) == [x \in (DOMAIN vs) \cup {k} |-> IF x = k THEN v ELSE vs[x]]

(* int(self._versions.get(safe_key, 0)) + 1 *)
NextVersion(v) == v + 1

(* "with self._cond:" is entered only while no thread holds the lock. *)
LockFreeUnguarded(owner) == TRUE

LockFree(owner) == owner = NoThread

(* self._cond.notify_all(): the waiters that are woken. *)
NotifyNothing(ws) == {}

NotifyAll(ws) == ws

(* remaining = deadline - time.monotonic(); remaining <= 0 *)
RemainingExpiredEarly(deadline, t) == deadline - t <= 1

RemainingExpired(deadline, t) == deadline - t <= 0

InWait(t) == bpc[t] \in {"w_lock", "w_blocked", "w_woken"}

TotalBumps == bumpsStarted[""] + bumpsStarted["tunnel"]

BusInit ==
    /\ versions = <<>>
    /\ condOwner = NoThread
    /\ waiters = {}
    /\ now = 0
    /\ bpc = [t \in Bumpers \cup Waiters |-> "idle"]
    /\ bkey = [t \in Bumpers \cup Waiters |-> ""]
    /\ blast = [t \in Waiters |-> 0]
    /\ bdeadline = [t \in Waiters |-> 0]
    /\ bcur = [t \in Bumpers |-> 0]
    /\ bret = [t \in Waiters |-> 0]
    /\ bchained = [t \in Waiters |-> FALSE]
    /\ bumpedSince = [t \in Waiters |-> FALSE]
    /\ bumpsStarted = [k \in SafeKeys |-> 0]
    /\ bumpsReturned = [k \in SafeKeys |-> 0]

(* ---- get_version: lines 10-13, one critical section ---- *)
GetVersion(t, raw) ==
    /\ bpc[t] = "idle"
    /\ LockFree(condOwner)
    /\ bkey' = [bkey EXCEPT ![t] = SafeKey(raw)]
    /\ bret' = [bret EXCEPT ![t] = Lookup(versions, SafeKey(raw))]
    /\ bumpedSince' = [bumpedSince EXCEPT ![t] = FALSE]
    /\ bpc' = [bpc EXCEPT ![t] = "g_done"]
    /\ UNCHANGED <<versions, condOwner, waiters, now, blast, bdeadline, bcur,
                   bchained, bumpsStarted, bumpsReturned>>

(* ---- bump: lines 15-19 ---- *)
(* enters "with self._cond:" and evaluates self._versions.get(safe_key, 0) *)
BumpEnter(t, raw) ==
    /\ bpc[t] = "idle"
    /\ TotalBumps < MaxBumps
    /\ LockFree(condOwner)
    /\ condOwner' = t
    /\ bkey' = [bkey EXCEPT ![t] = SafeKey(raw)]
    /\ bcur' = [bcur EXCEPT ![t] = Lookup(versions, SafeKey(raw))]
    /\ bumpsStarted' = [bumpsStarted EXCEPT ![SafeKey(raw)] = @ + 1]
    /\ bpc' = [bpc EXCEPT ![t] = "b_write"]
    /\ UNCHANGED <<versions, waiters, now, blast, bdeadline, bret,
                   bchained, bumpedSince, bumpsReturned>>

(* stores the incremented value, notify_all(), leaves the "with" block *)
BumpCommit(t) ==
    /\ bpc[t] = "b_write"
    /\ versions' = Store(versions, bkey[t], NextVersion(bcur[t]))
    /\ LET woken == NotifyAll(waiters) IN
        /\ waiters' = waiters \ woken
        /\ bpc' = [x \in Bumpers \cup Waiters |->
                     IF x = t THEN "idle"
                     ELSE IF x \in woken THEN "w_woken" ELSE bpc[x]]
    /\ condOwner' = IF condOwner = t THEN NoThread ELSE condOwner
    /\ bumpsReturned' = [bumpsReturned EXCEPT ![bkey[t]] = @ + 1]
    /\ bumpedSince' = [x \in Waiters |->
                         IF /\ bkey[x] = bkey[t]
                            /\ \/ bpc[x] = "g_done"
                               \/ InWait(x) /\ bchained[x]
                         THEN TRUE ELSE bumpedSince[x]]
    /\ bkey' = [bkey EXCEPT ![t] = ""]
    /\ bcur' = [bcur EXCEPT ![t] = 0]
    /\ UNCHANGED <<now, blast, bdeadline, bret, bchained, bumpsStarted>>

(* ---- wait_for_change: lines 21-32 ---- *)
(* lines 22-23: safe_key and deadline, before the lock is taken *)
WaitStart(t, k, last, timeout, chained) ==
    /\ bpc' = [bpc EXCEPT ![t] = "w_lock"]
    /\ bkey' = [bkey EXCEPT ![t] = k]
    /\ blast' = [blast EXCEPT ![t] = last]
    /\ bdeadline' = [bdeadline EXCEPT ![t] = now + timeout]
    /\ bchained' = [bchained EXCEPT ![t] = chained]
    /\ bumpedSince' = [bumpedSince EXCEPT ![t] = IF chained THEN @ ELSE FALSE]
    /\ bret' = [bret EXCEPT ![t] = 0]
    /\ UNCHANGED <<versions, condOwner, waiters, now, bcur, bumpsStarted, bumpsReturned>>

(* wait_for_change(key, last_version, timeout) with arbitrary arguments *)
WaitCall(t, raw, last, timeout) ==
    /\ bpc[t] = "idle"
    /\ WaitStart(t, SafeKey(raw), last, timeout, FALSE)

(* version = get_version(key); wait_for_change(key, version, timeout) *)
WaitCallAfterGet(t, timeout) ==
    /\ bpc[t] = "g_done"
    /\ WaitStart(t, bkey[t], bret[t], timeout, TRUE)

(* lines 24-32: one pass of the loop with the lock held: return, or wait()  *)
(* which releases the lock and blocks in the same instant                   *)
WaitLoop(t) ==
    /\ bpc[t] \in {"w_lock", "w_woken"}
    /\ LockFree(condOwner)
    /\ LET current == Lookup(versions, bkey[t]) IN
        IF current # blast[t] \/ RemainingExpired(bdeadline[t], now)
        THEN /\ bret' = [bret EXCEPT ![t] = current]
             /\ bpc' = [bpc EXCEPT ![t] = "w_done"]
             /\ UNCHANGED waiters
        ELSE /\ bpc' = [bpc EXCEPT ![t] = "w_blocked"]
             /\ waiters' = waiters \cup {t}
             /\ UNCHANGED bret
    /\ UNCHANGED <<versions, condOwner, now, bkey, blast, bdeadline, bcur,
                   bchained, bumpedSince, bumpsStarted, bumpsReturned>>

(* self._cond.wait(remaining) gives up once "remaining" has passed *)
WaitTimeoutWake(t) ==
    /\ bpc[t] = "w_blocked"
    /\ now >= bdeadline[t]
    /\ waiters' = waiters \ {t}
    /\ bpc' = [bpc EXCEPT ![t] = "w_woken"]
    /\ UNCHANGED <<versions, condOwner, now, bkey, blast, bdeadline, bcur, bret,
                   bchained, bumpedSince, bumpsStarted, bumpsReturned>>

(* the caller drops the result and becomes free for another call *)
BusFinish(t) ==
    /\ bpc[t] \in {"g_done", "w_done"}
    /\ bpc' = [bpc EXCEPT ![t] = "idle"]
    /\ bkey' = [bkey EXCEPT ![t] = ""]
    /\ blast' = [blast EXCEPT ![t] = 0]
    /\ bdeadline' = [bdeadline EXCEPT ![t] = 0]
    /\ bret' = [bret EXCEPT ![t] = 0]
    /\ bchained' = [bchained EXCEPT ![t] = FALSE]
    /\ bumpedSince' = [bumpedSince EXCEPT ![t] = FALSE]
    /\ UNCHANGED <<versions, condOwner, waiters, now, bcur, bumpsStarted, bumpsReturned>>

BusTick ==
    /\ now < MaxNow
    /\ now' = now + 1
    /\ UNCHANGED <<versions, condOwner, waiters, bpc, bkey, blast, bdeadline, bcur, bret,
                   bchained, bumpedSince, bumpsStarted, bumpsReturned>>

(***************************************************************************)
(* JournalTunnelManager.  Every access to the manager's fields happens     *)
(* inside "with self.lock:", so each lock block is one action; the steps   *)
(* between two lock blocks of one method are separate actions.  The fields *)
(* local_host, local_port, log_lines and reader_thread are written but     *)
(* never decide a branch and are left out.  error_message holds the kind   *)
(* of the text stored; next_refresh_at is kept relative to time.time().    *)
(***************************************************************************)
(* request threads that call open() / close(manual=True) *)
NumOperators == 2

(* _reconnect_worker threads that can exist at the same time *)
NumWorkers == 2

(* child processes ever spawned; a further Popen can only fail *)
MaxProcs == 2

(* threads inside a call, a rotation or a reconnect loop when a request or *)
(* a rotation begins                                                       *)
MaxInFlight == 2

(* self.max_reconnect_attempts *)
max_reconnect_attempts == 5

Operators == 1..NumOperators

Workers == (NumOperators + 1)..(NumOperators + NumWorkers)

RefreshThread == NumOperators + NumWorkers + 1

TunnelThreads == Operators \cup Workers \cup {RefreshThread}

Procs == 1..MaxProcs

NoProc == 0

NoUrl == 0

NoRet == [by |-> NoThread, kind |-> "none"]

(* no external call in a step *)
NoExt == [callbacks |-> 0, spawn |-> FALSE, locked |-> FALSE, raised |-> FALSE,
          latch |-> FALSE]

(* n calls of _emit_state_change and, if sp, one of subprocess.Popen, made  *)
(* inside a "with self.lock:" block; raised: the callback raised; latch:   *)
(* the block is the reader's assignment of public_url                      *)
LockedCalls(n, sp, raised) ==
    [callbacks |-> n, spawn |-> sp, locked |-> TRUE, raised |-> raised,
     latch |-> FALSE]

(* the outcomes of the callback when it is invoked n times in a block *)
MayRaise(n) == IF n > 0 THEN BOOLEAN ELSE {FALSE}

VARIABLES
    process,          \* self.process: NoProc (None) or the child it references
    public_url,       \* self.public_url: NoUrl (None) or the URL printed by that child
    error_message,    \* self.error_message: "None" or the kind of message stored
    closing,          \* self.closing
    next_refresh_at,  \* self.next_refresh_at against time.time(): "None", "future", "elapsed"
    allow_reconnect,  \* self.allow_reconnect
    reconnecting,     \* self.reconnecting
    pstate,           \* per child process: "unborn", "alive", "exited"
    rpc,              \* per child: its reader thread: "none", "reading", "finally", "done"
    sshPresent,       \* shutil.which("ssh") is not None
    tpc,              \* per thread: position in open / close / the loop it runs
    tok,              \* per background thread: "ok" / "closed" of the call that returned
    tproc,            \* per thread: close()'s local "proc"
    attempt,          \* per reconnect worker: the loop variable "attempt"
    ret,              \* the (thread, result) of the open / close that returned in the last step
    manualClosed,     \* a close(manual=True) has returned and no operator called open() since
    ext,              \* the external calls made in the last step: change callbacks (and
                      \* whether one raised), Popen
    rotUrl            \* _refresh_loop: the URL that was latched when the rotation in progress began

mgrVars == <<process, public_url, error_message, closing, next_refresh_at,
             allow_reconnect, reconnecting>>

envVars == <<pstate, rpc, sshPresent>>

thrVars == <<tpc, tok, tproc, attempt>>

tunVars == <<mgrVars, envVars, thrVars, ret, manualClosed, ext, rotUrl>>

(* self.process is not None and self.process.poll() is None *)
IsRunningNever(proc, ps) == FALSE

IsRunning(proc, ps) == proc # NoProc /\ ps[proc] = "alive"

(* _start_reconnect_unlocked: "if not self.allow_reconnect or self.reconnecting: return" *)
MayStartReconnect(allow, rec) == allow /\ ~rec

(* the test of the reader's finally block: "self.process is proc and not self.closing" *)
ExitWasUnexpectedIfOwned(proc, p, cl) == proc = p

ExitWasUnexpected(proc, p, cl) == proc = p /\ ~cl

(* _reader_loop, line 191: "if not self.public_url:" *)
MayLatchAlways(url) == TRUE

MayLatch(url) == url = NoUrl

(* open(), lines 233 and 280: "if self.public_url:" *)
UrlKnownNever(url) == FALSE

UrlKnown(url) == url # NoUrl

(* what open()'s first lock block stores in self.allow_reconnect (line 231) *)
AllowAfterOpen(allow) == TRUE

(* _reset_runtime, line 139: what it leaves in self.process *)
ResetKeepsHandle(proc) == proc

ResetProcess(proc) == NoProc

(* _emit_state_change, lines 105-109: "try: callback() except Exception:   *)
(* pass"; does an exception raised by the callback leave the method?       *)
EscapesIfRaised(raised) == raised

Escapes(raised) == FALSE

(* where a background thread is after a block that called the callback:    *)
(* an exception that left _emit_state_change would end the thread          *)
ThreadAfter(raised, pc) == IF Escapes(raised) THEN "crashed" ELSE pc

SpawnedProcs == {p \in Procs : pstate[p] # "unborn"}

AliveProcs == {p \in Procs : pstate[p] = "alive"}

FreeWorkers == {w \in Workers : tpc[w] = "w_off"}

(* snapshot(): the fields a caller reads from the returned dict *)
Snapshot ==
    [active |-> IsRunning(process, pstate),
     public_url |-> public_url,
     error_message |-> error_message,
     reconnecting |-> reconnecting,
     next_refresh_epoch |-> next_refresh_at]

(* build_public_url_for_path(): the base it reads under the lock; NoUrl gives "" *)
PublicUrlBase == public_url

TunnelInit ==
    /\ process = NoProc
    /\ public_url = NoUrl
    /\ error_message = "None"
    /\ closing = FALSE
    /\ next_refresh_at = "None"
    /\ allow_reconnect = FALSE
    /\ reconnecting = FALSE
    /\ pstate = [p \in Procs |-> "unborn"]
    /\ rpc = [p \in Procs |-> "none"]
    /\ sshPresent \in BOOLEAN
    /\ tpc = [t \in TunnelThreads |->
                IF t \in Operators THEN "idle"
                ELSE IF t \in Workers THEN "w_off" ELSE "f_sleep"]
    /\ tok = [t \in Workers \cup {RefreshThread} |-> FALSE]
    /\ tproc = [t \in Operators \cup {RefreshThread} |-> NoProc]
    /\ attempt = [w \in Workers |-> 0]
    /\ ret = NoRet
    /\ manualClosed = FALSE
    /\ ext = NoExt
    /\ rotUrl = NoUrl

(* ---- _start_reconnect_unlocked, called inside a lock block ---- *)
(* rec is self.reconnecting as the block has left it.  When the thread is  *)
(* started, worker w begins its loop with attempt = 1.                     *)
StartReconnect(rec, pcs) ==
    IF MayStartReconnect(allow_reconnect, rec)
    THEN /\ FreeWorkers # {}
         /\ LET w == CHOOSE x \in FreeWorkers : \A y \in FreeWorkers : x <= y IN
              /\ tpc' = [pcs EXCEPT ![w] = "w_check"]
              /\ attempt' = [attempt EXCEPT ![w] = 1]
         /\ reconnecting' = TRUE
    ELSE /\ tpc' = pcs
         /\ attempt' = attempt
         /\ reconnecting' = rec

(* the _emit_state_change() of _start_reconnect_unlocked (line 177) *)
StartEmits(rec) == IF MayStartReconnect(allow_reconnect, rec) THEN 1 ELSE 0

(* ---- returning from open() / close() ---- *)
(* An operator's request handler ends with the result; a background thread *)
(* keeps ok for the block that follows in its loop.                        *)
Returned(t, kind, ok, pcAfter) ==
    /\ ret' = [by |-> t, kind |-> kind]
    /\ tpc' = [tpc EXCEPT ![t] = IF t \in Operators THEN "idle" ELSE pcAfter]
    /\ tok' = IF t \in Operators THEN tok ELSE [tok EXCEPT ![t] = ok]

(* open() / close() left by an exception instead of a result *)
Unwinds(t) ==
    /\ ret' = [by |-> t, kind |-> "exception"]
    /\ tpc' = [tpc EXCEPT ![t] = IF t \in Operators THEN "idle" ELSE "crashed"]

(* open() called by a background thread: line 219, shutil.which("ssh") *)
EnterOpen(t) ==
    IF sshPresent
    THEN /\ tpc' = [tpc EXCEPT ![t] = "o_lock"]
         /\ tok' = tok /\ ret' = NoRet
    ELSE Returned(t, "no_ssh", FALSE, "o_ret")

(* the threads that are inside open(), close(), a rotation or a reconnect loop; *)
(* an operator request or a rotation begins only while fewer than MaxInFlight   *)
(* of them are                                                                  *)
InFlight == {t \in TunnelThreads : tpc[t] \notin {"idle", "w_off", "f_sleep"}}

MayBegin == Cardinality(InFlight) < MaxInFlight

(* the thread is about to run open()'s first lock block *)
AtOpen(t) ==
    IF t \in Operators THEN tpc[t] = "idle" /\ sshPresent /\ MayBegin ELSE tpc[t] = "o_lock"

ClearedByOpen(t) == IF t \in Operators THEN FALSE ELSE manualClosed

(* ---- open() by an operator: lines 219-220, ssh is not installed ---- *)
OperatorOpenNoSsh(t) ==
    /\ tpc[t] = "idle"
    /\ MayBegin
    /\ ~sshPresent
    /\ Returned(t, "no_ssh", FALSE, "o_ret")
    /\ manualClosed' = FALSE
    /\ UNCHANGED <<mgrVars, envVars, tproc, attempt>>
    /\ ext' = NoExt
    /\ UNCHANGED rotUrl

(* ---- open(): lines 222-235, a child is running ---- *)
OpenRunning(t) ==
    /\ AtOpen(t)
    /\ IsRunning(process, pstate)
    /\ allow_reconnect' = AllowAfterOpen(allow_reconnect)
    /\ IF UrlKnown(public_url)
       THEN Returned(t, "active", TRUE, "o_ret")
       ELSE Returned(t, "starting", FALSE, "o_ret")
    /\ manualClosed' = ClearedByOpen(t)
    /\ UNCHANGED <<process, public_url, error_message, closing, next_refresh_at,
                   reconnecting, envVars, tproc, attempt>>
    /\ ext' = NoExt
    /\ UNCHANGED rotUrl

(* ---- open(): lines 222-275, no child is running and Popen succeeds ---- *)
OpenSpawn(t) ==
    /\ AtOpen(t)
    /\ ~IsRunning(process, pstate)
    /\ Procs \ SpawnedProcs # {}
    /\ LET p == CHOOSE x \in Procs \ SpawnedProcs : \A y \in Procs \ SpawnedProcs : x <= y IN
        /\ process' = p
        /\ pstate' = [pstate EXCEPT ![p] = "alive"]
        /\ rpc' = [rpc EXCEPT ![p] = "reading"]
    /\ allow_reconnect' = AllowAfterOpen(allow_reconnect)
    /\ public_url' = NoUrl
    /\ error_message' = "None"
    /\ closing' = FALSE
    /\ next_refresh_at' = "None"
    /\ \E raised \in MayRaise(1) :
         /\ ext' = LockedCalls(1, TRUE, raised)
         /\ IF Escapes(raised)
            THEN Unwinds(t)
            ELSE /\ tpc' = [tpc EXCEPT ![t] = "o_poll"]
                 /\ ret' = NoRet
    /\ manualClosed' = ClearedByOpen(t)
    /\ UNCHANGED <<reconnecting, sshPresent, tok, tproc, attempt>>
    /\ UNCHANGED rotUrl

(* ---- open(): lines 222-270, no child is running and Popen raises OSError ---- *)
OpenSpawnFails(t) ==
    /\ AtOpen(t)
    /\ ~IsRunning(process, pstate)
    /\ allow_reconnect' = AllowAfterOpen(allow_reconnect)
    /\ process' = ResetProcess(process)
    /\ public_url' = NoUrl
    /\ error_message' = "None"
    /\ closing' = FALSE
    /\ next_refresh_at' = "None"
    /\ Returned(t, "spawn_failed", FALSE, "o_ret")
    /\ manualClosed' = ClearedByOpen(t)
    /\ UNCHANGED <<reconnecting, envVars, tproc, attempt>>
    /\ ext' = LockedCalls(0, TRUE, FALSE)
    /\ UNCHANGED rotUrl

(* ---- open(): lines 278-286, a pass of the wait loop that returns ---- *)
OpenPoll(t) ==
    /\ tpc[t] = "o_poll"
    /\ UrlKnown(public_url) \/ ~IsRunning(process, pstate)
    /\ IF UrlKnown(public_url)
       THEN Returned(t, "active", TRUE, "o_ret")
       ELSE Returned(t, "exited", FALSE, "o_ret")
    /\ UNCHANGED <<mgrVars, envVars, tproc, attempt, manualClosed>>
    /\ ext' = NoExt
    /\ UNCHANGED rotUrl

(* ---- open(): lines 288-299, the wait budget is used up ---- *)
OpenTimeout(t) ==
    /\ tpc[t] = "o_poll"
    /\ IF IsRunning(process, pstate)
       THEN /\ error_message' = "still_initializing"
            /\ \E raised \in MayRaise(1) :
                 /\ ext' = LockedCalls(1, FALSE, raised)
                 /\ IF Escapes(raised)
                    THEN Unwinds(t) /\ tok' = tok
                    ELSE Returned(t, "starting", FALSE, "o_ret")
       ELSE /\ error_message' = error_message
            /\ Returned(t, "no_url", FALSE, "o_ret")
            /\ ext' = NoExt
    /\ UNCHANGED <<process, public_url, closing, next_refresh_at, allow_reconnect,
                   reconnecting, envVars, tproc, attempt, manualClosed>>
    /\ UNCHANGED rotUrl

(* ---- close(manual): lines 302-309 ---- *)
CloseBlock(t, manual) ==
    /\ allow_reconnect' = IF manual THEN FALSE ELSE allow_reconnect
    /\ IF ~IsRunning(process, pstate)
       THEN /\ process' = ResetProcess(process)
            /\ public_url' = NoUrl
            /\ error_message' = "None"
            /\ closing' = FALSE
            /\ next_refresh_at' = "None"
            /\ Returned(t, "already_closed", TRUE, "c_ret")
            /\ tproc' = tproc
            /\ manualClosed' = IF manual THEN TRUE ELSE manualClosed
       ELSE /\ closing' = TRUE
            /\ tproc' = [tproc EXCEPT ![t] = process]
            /\ tpc' = [tpc EXCEPT ![t] = "c_stop"]
            /\ ret' = NoRet
            /\ UNCHANGED <<process, public_url, error_message, next_refresh_at, tok,
                           manualClosed>>
    /\ UNCHANGED <<reconnecting, envVars, attempt>>
    /\ ext' = NoExt
    /\ UNCHANGED rotUrl

(* an operator's request calls tunnel.close(manual=True) *)
OperatorClose(t) ==
    /\ tpc[t] = "idle"
    /\ MayBegin
    /\ CloseBlock(t, TRUE)

(* ---- close(): lines 311-317, terminate() or kill() stops the child ---- *)
CloseStop(t) ==
    /\ tpc[t] = "c_stop"
    /\ pstate' = [pstate EXCEPT ![tproc[t]] = "exited"]
    /\ tpc' = [tpc EXCEPT ![t] = "c_final"]
    /\ ret' = NoRet
    /\ UNCHANGED <<mgrVars, rpc, sshPresent, tok, tproc, attempt, manualClosed>>
    /\ ext' = NoExt
    /\ UNCHANGED rotUrl

(* ---- close(): lines 318-321, neither terminate() nor kill() stops it ---- *)
CloseStopFails(t) ==
    /\ tpc[t] = "c_stop"
    /\ pstate[tproc[t]] = "alive"
    /\ closing' = FALSE
    /\ Returned(t, "close_failed", FALSE, "c_ret")
    /\ tproc' = [tproc EXCEPT ![t] = NoProc]
    /\ UNCHANGED <<process, public_url, error_message, next_refresh_at, allow_reconnect,
                   reconnecting, envVars, attempt, manualClosed>>
    /\ ext' = NoExt
    /\ UNCHANGED rotUrl

(* ---- close(): lines 323-327 ---- *)
CloseFinal(t) ==
    /\ tpc[t] = "c_final"
    /\ process' = ResetProcess(process)
    /\ public_url' = NoUrl
    /\ error_message' = "None"
    /\ closing' = FALSE
    /\ next_refresh_at' = "None"
    /\ reconnecting' = FALSE
    /\ \E raised \in MayRaise(1) :
         /\ ext' = LockedCalls(1, FALSE, raised)
         /\ IF Escapes(raised)
            THEN Unwinds(t) /\ tok' = tok
            ELSE Returned(t, "closed", TRUE, "c_ret")
    /\ tproc' = [tproc EXCEPT ![t] = NoProc]
    /\ manualClosed' = IF t \in Operators THEN TRUE ELSE manualClosed
    /\ UNCHANGED <<allow_reconnect, envVars, attempt>>
    /\ UNCHANGED rotUrl

(* ---- the child process ends on its own ---- *)
ProcExit(p) ==
    /\ pstate[p] = "alive"
    /\ pstate' = [pstate EXCEPT ![p] = "exited"]
    /\ ret' = NoRet
    /\ UNCHANGED <<mgrVars, rpc, sshPresent, thrVars, manualClosed>>
    /\ ext' = NoExt
    /\ UNCHANGED rotUrl

(* ---- _reader_loop: lines 189-197, a line with a valid public URL ---- *)
ReaderLatch(p) ==
    /\ rpc[p] = "reading"
    /\ MayLatch(public_url)
    /\ public_url' = p
    /\ next_refresh_at' = "future"
    /\ \E raised \in MayRaise(1) :
         /\ ext' = [LockedCalls(1, FALSE, raised) EXCEPT !.latch = TRUE]
         /\ IF Escapes(raised)
            THEN /\ error_message' = "read_error"
                 /\ rpc' = [rpc EXCEPT ![p] = "finally"]
            ELSE /\ error_message' = "None"
                 /\ rpc' = rpc
    /\ ret' = NoRet
    /\ UNCHANGED <<process, closing, allow_reconnect, reconnecting, pstate, sshPresent,
                   thrVars, manualClosed>>
    /\ UNCHANGED rotUrl

(* ---- _reader_loop: lines 199-201, reading the output raises ---- *)
ReaderException(p) ==
    /\ rpc[p] = "reading"
    /\ error_message' = "read_error"
    /\ rpc' = [rpc EXCEPT ![p] = "finally"]
    /\ ret' = NoRet
    /\ UNCHANGED <<process, public_url, closing, next_refresh_at, allow_reconnect,
                   reconnecting, pstate, sshPresent, thrVars, manualClosed>>
    /\ ext' = NoExt
    /\ UNCHANGED rotUrl

(* ---- _reader_loop: lines 202-216, the finally block ---- *)
ReaderFinallyBlock(p) ==
    /\ IF ExitWasUnexpected(process, p, closing)
       THEN /\ next_refresh_at' = "None"
            /\ error_message' = IF error_message # "None" THEN error_message
                                ELSE "ssh_exited"
            /\ StartReconnect(reconnecting, tpc)
       ELSE UNCHANGED <<next_refresh_at, error_message, reconnecting, tpc, attempt>>
    /\ LET n == IF ExitWasUnexpected(process, p, closing)
                 THEN 1 + StartEmits(reconnecting) ELSE 0 IN
         \E raised \in MayRaise(n) :
            /\ ext' = IF n > 0 THEN LockedCalls(n, FALSE, raised) ELSE NoExt
            /\ rpc' = [rpc EXCEPT ![p] = IF Escapes(raised) THEN "crashed" ELSE "done"]
    /\ ret' = NoRet
    /\ UNCHANGED <<process, public_url, closing, allow_reconnect, pstate, sshPresent,
                   tok, tproc, manualClosed>>
    /\ UNCHANGED rotUrl

(* end of the child's output (lines 183-185, 198), then the finally block *)
ReaderEOF(p) ==
    /\ rpc[p] = "reading"
    /\ pstate[p] = "exited"
    /\ ReaderFinallyBlock(p)

ReaderFinally(p) ==
    /\ rpc[p] = "finally"
    /\ ReaderFinallyBlock(p)

(* ---- time.time() reaches self.next_refresh_at ---- *)
RefreshDeadlinePasses ==
    /\ next_refresh_at = "future"
    /\ next_refresh_at' = "elapsed"
    /\ ret' = NoRet
    /\ UNCHANGED <<process, public_url, error_message, closing, allow_reconnect,
                   reconnecting, envVars, thrVars, manualClosed>>
    /\ ext' = NoExt
    /\ UNCHANGED rotUrl

(* ---- _refresh_loop: lines 332-345 ---- *)
RotationDue ==
    /\ allow_reconnect
    /\ ~closing
    /\ ~reconnecting
    /\ IsRunning(process, pstate)
    /\ next_refresh_at = "elapsed"

RefreshBegin ==
    /\ tpc[RefreshThread] = "f_sleep"
    /\ MayBegin
    /\ RotationDue
    /\ reconnecting' = TRUE
    /\ error_message' = "rotation_in_progress"
    /\ \E raised \in MayRaise(1) :
         /\ ext' = LockedCalls(1, FALSE, raised)
         /\ tpc' = [tpc EXCEPT ![RefreshThread] = ThreadAfter(raised, "f_close")]
    /\ ret' = NoRet
    /\ UNCHANGED <<process, public_url, closing, next_refresh_at, allow_reconnect,
                   envVars, tok, tproc, attempt, manualClosed>>
    /\ rotUrl' = public_url

(* ---- _refresh_loop: line 347, close(manual=False) ---- *)
RefreshClose ==
    /\ tpc[RefreshThread] = "f_close"
    /\ CloseBlock(RefreshThread, FALSE)

(* ---- _refresh_loop: lines 348-365 ---- *)
RefreshAfterClose ==
    /\ tpc[RefreshThread] = "c_ret"
    /\ \E raised \in MayRaise(IF ~tok[RefreshThread] \/ ~allow_reconnect THEN 1 ELSE 0) :
       /\ IF ~tok[RefreshThread]
          THEN /\ reconnecting' = FALSE
               /\ error_message' = "rotation_close_failed"
               /\ tpc' = [tpc EXCEPT ![RefreshThread] = ThreadAfter(raised, "f_sleep")]
               /\ tok' = tok /\ ret' = NoRet
          ELSE IF ~allow_reconnect
          THEN /\ reconnecting' = FALSE
               /\ error_message' = error_message
               /\ tpc' = [tpc EXCEPT ![RefreshThread] = ThreadAfter(raised, "f_sleep")]
               /\ tok' = tok /\ ret' = NoRet
          ELSE /\ EnterOpen(RefreshThread)
               /\ UNCHANGED <<reconnecting, error_message>>
       /\ ext' = IF ~tok[RefreshThread] \/ ~allow_reconnect
                 THEN LockedCalls(1, FALSE, raised) ELSE NoExt
    /\ UNCHANGED <<process, public_url, closing, next_refresh_at, allow_reconnect,
                   envVars, tproc, attempt, manualClosed>>
    /\ rotUrl' = IF ~tok[RefreshThread] \/ ~allow_reconnect THEN NoUrl ELSE rotUrl

(* ---- _refresh_loop: lines 366-382 ---- *)
RefreshAfterOpen ==
    /\ tpc[RefreshThread] = "o_ret"
    /\ \E raised \in MayRaise(1) :
       LET pcs == [tpc EXCEPT ![RefreshThread] = ThreadAfter(raised, "f_sleep")] IN
        /\ ext' = IF tok[RefreshThread] \/ IsRunning(process, pstate)
                  THEN LockedCalls(1, FALSE, raised)
                  ELSE LockedCalls(1 + StartEmits(FALSE), FALSE, raised)
        /\ IF tok[RefreshThread]
           THEN /\ error_message' = "None"
                /\ reconnecting' = FALSE
                /\ tpc' = pcs
                /\ attempt' = attempt
           ELSE IF IsRunning(process, pstate)
           THEN /\ error_message' = "still_updating"
                /\ reconnecting' = FALSE
                /\ tpc' = pcs
                /\ attempt' = attempt
           ELSE /\ error_message' = "refresh_failed"
                /\ StartReconnect(FALSE, pcs)
    /\ ret' = NoRet
    /\ UNCHANGED <<process, public_url, closing, next_refresh_at, allow_reconnect,
                   envVars, tok, tproc, manualClosed>>
    /\ rotUrl' = NoUrl

(* _reconnect_worker, lines 388, 394 and 403: "self.reconnecting = False" *)
FlagKept(rec) == rec

FlagAfterWorker(rec) == FALSE

(* ---- _reconnect_worker: lines 386-392 ---- *)
WorkerCheck(w) ==
    /\ tpc[w] = "w_check"
    /\ IF ~allow_reconnect
       THEN /\ reconnecting' = FlagAfterWorker(reconnecting)
            /\ tpc' = [tpc EXCEPT ![w] = "w_off"]
            /\ attempt' = [attempt EXCEPT ![w] = 0]
            /\ tok' = tok /\ ret' = NoRet
       ELSE /\ EnterOpen(w)
            /\ UNCHANGED <<reconnecting, attempt>>
    /\ UNCHANGED <<process, public_url, error_message, closing, next_refresh_at,
                   allow_reconnect, envVars, tproc, manualClosed>>
    /\ ext' = NoExt
    /\ UNCHANGED rotUrl

(* ---- _reconnect_worker: lines 393-410 ---- *)
WorkerAfterOpen(w) ==
    /\ tpc[w] = "o_ret"
    /\ \E raised \in MayRaise(IF ~tok[w] /\ attempt[w] < max_reconnect_attempts
                               THEN 0 ELSE 1) :
       /\ IF tok[w]
          THEN /\ reconnecting' = FlagAfterWorker(reconnecting)
               /\ error_message' = "None"
               /\ tpc' = [tpc EXCEPT ![w] = ThreadAfter(raised, "w_off")]
               /\ attempt' = [attempt EXCEPT ![w] = 0]
          ELSE IF attempt[w] < max_reconnect_attempts
          THEN /\ tpc' = [tpc EXCEPT ![w] = "w_check"]
               /\ attempt' = [attempt EXCEPT ![w] = @ + 1]
               /\ UNCHANGED <<reconnecting, error_message>>
          ELSE /\ reconnecting' = FlagAfterWorker(reconnecting)
               /\ error_message' = "reconnect_failed"
               /\ tpc' = [tpc EXCEPT ![w] = ThreadAfter(raised, "w_off")]
               /\ attempt' = [attempt EXCEPT ![w] = 0]
       /\ ext' = IF ~tok[w] /\ attempt[w] < max_reconnect_attempts THEN NoExt
                 ELSE LockedCalls(1, FALSE, raised)
    /\ tok' = [tok EXCEPT ![w] = FALSE]
    /\ ret' = NoRet
    /\ UNCHANGED <<process, public_url, closing, next_refresh_at, allow_reconnect,
                   envVars, tproc, manualClosed>>
    /\ UNCHANGED rotUrl

(* ===================== the public check-in gate ========================= *)
(* journal_routes.py: the ActivePublicSessionKey cell, the sessions and     *)
(* their check-in tokens, and the request handlers that read or write them. *)
(* Lesson k has one session; its key "lesson_id:date" is written k.         *)

NumSessions == 2

MaxToken == 2

NumRequests == 2

MaxHandlers == 2

MaxControls == 1

MaxGateProcs == 1

Sessions == 1..NumSessions

Requests == 1..NumRequests

(* runtime["active_public_session_key"] = "" *)
NoKey == 0

(* the token query finds no JournalLessonSession row *)
NoSession == 0

(* the g-th token that secrets.token_urlsafe produced for session k *)
Tokens == {<<k, g>> : k \in Sessions, g \in 1..MaxToken}

(* a token string that no session ever had *)
BadToken == <<NoSession, 0>>

(* _request_host_candidates: url is the child whose public URL has the     *)
(* request's host (NoUrl: none), relay says that the host ends in          *)
(* .lhr.life or .localhost.run, as every public URL's host does            *)
Hosts == {h \in [url : Procs \cup {NoUrl}, relay : BOOLEAN] : h.url # NoUrl => h.relay}

(* the "date" parameter of a delete request: absent, the date of the       *)
(* lesson's session, or another date                                       *)
DateParams == {"none", "session", "other"}

NoResp == [kind |-> "none", token |-> BadToken, local |-> FALSE,
           wrote |-> NoSession, bumps |-> {}]

NoCheckin == [srow |-> NoSession, adopt |-> FALSE, akey |-> NoKey]

VARIABLES
    active_public_session_key,  \* runtime["active_public_session_key"]: NoKey or a session
    lesson,            \* per lesson: the JournalLesson row exists
    qr_token,          \* per session: 0 (no row or empty token) or the generation of its token
    cpc,               \* per check-in request thread: "idle", "decide"
    creq,              \* per check-in request thread: session_row, the key it read, its decision to adopt
    hpc,               \* per operator: position in the open / close endpoint
    hkey,              \* per operator: the session named by its open request
    hok,               \* per operator: "ok" of the tunnel call that returned
    resp               \* the response sent in the last step, what it wrote and bumped

gateVars == <<active_public_session_key, lesson, qr_token, cpc, creq, hpc, hkey, hok, resp>>

(* _public_session_key: f"{lesson_id}:{date}" *)
PublicSessionKey(k) == k

(* journal_checkin_page, lines 2389-2395: the session row bearing exactly this token *)
SessionByToken(token) ==
    IF token \in Tokens /\ qr_token[token[1]] = token[2] THEN token[1] ELSE NoSession

(* _active_public_session_exists: the key parses, the session row exists and has a token *)
ActivePublicSessionExistsAlways(key) == TRUE

ActivePublicSessionExists(key) == key # NoKey /\ lesson[key] /\ qr_token[key] # 0

(* is_local_request: the request's Host or X-Forwarded-Host is local-like *)
IsLocalRequestAlways(local) == TRUE

IsLocalRequest(local) == local

(* _restrict_public_routes: only the PUBLIC_ENDPOINTS are served to non-local callers *)
Admitted(local, public) == IsLocalRequest(local) \/ public

(* journal_checkin_page, line 2413 *)
TunnelIsActive == Snapshot.active /\ Snapshot.public_url # NoUrl

(* line 2414 *)
RequestViaActiveTunnel(host) == TunnelIsActive /\ host.url = Snapshot.public_url

(* line 2415, _is_public_tunnel_host *)
RequestViaTunnelHost(host) == host.relay

(* lines 2416-2424 *)
CanRecoverActiveKey(host, key) ==
    /\ TunnelIsActive
    /\ \/ RequestViaActiveTunnel(host)
       \/ RequestViaTunnelHost(host)
       \/ key = NoKey
       \/ ~ActivePublicSessionExists(key)

(* line 2426: the request will store its own key *)
AdoptsKeyOnRecovery(host, key) == CanRecoverActiveKey(host, key)

AdoptsKeyAlways(host, key) == TRUE

AdoptsKey(host, key) ==
    CanRecoverActiveKey(host, key) /\ (key = NoKey \/ ~ActivePublicSessionExists(key))

(* _ensure_session_token after _get_or_create_session *)
EnsuredToken(tokens, k) == IF tokens[k] = 0 THEN [tokens EXCEPT ![k] = 1] ELSE tokens

(* _build_checkin_urls, lines 848-857: an empty key is set to the session shown *)
KeyAfterCheckinUrls(key, k) == IF key = NoKey /\ TunnelIsActive THEN PublicSessionKey(k) ELSE key

(* a step of a handler that does not call the tunnel manager *)
TunnelQuiet ==
    /\ ret' = NoRet
    /\ ext' = NoExt
    /\ UNCHANGED <<mgrVars, envVars, thrVars, manualClosed, rotUrl>>

(* requests being served; a new one is taken while fewer than MaxHandlers are *)
HandlersInFlight ==
    Cardinality({r \in Requests : cpc[r] # "idle"})
      + Cardinality({t \in Operators : hpc[t] # "idle"})

HandlerMayBegin == HandlersInFlight < MaxHandlers

(* the request is taken by the first idle thread of the server's pool *)
TakesRequest(r) ==
    /\ cpc[r] = "idle"
    /\ \A q \in Requests : cpc[q] = "idle" => r <= q
    /\ HandlerMayBegin

(* the same for a request to the open or close endpoint, of which at most  *)
(* MaxControls are served at a time                                        *)
TakesControl(t) ==
    /\ hpc[t] = "idle"
    /\ \A u \in Operators : hpc[u] = "idle" => t <= u
    /\ Cardinality({u \in Operators : hpc[u] # "idle"}) < MaxControls
    /\ HandlerMayBegin

GateInit ==
    /\ active_public_session_key = NoKey
    /\ lesson = [k \in Sessions |-> TRUE]
    /\ qr_token = [k \in Sessions |-> 0]
    /\ cpc = [r \in Requests |-> "idle"]
    /\ creq = [r \in Requests |-> NoCheckin]
    /\ hpc = [t \in Operators |-> "idle"]
    /\ hkey = [t \in Operators |-> NoSession]
    /\ hok = [t \in Operators |-> FALSE]
    /\ resp = NoResp

(* journal_checkin_page, line 2464: a submission is processed only when no *)
(* access error was set.  marks: a POST that names an unmarked student     *)
WritesDespiteError(kind, marks) == marks

Writes(kind, marks) == kind = "accepted" /\ marks

(* the response of a step of journal_checkin_page, with the attendance row *)
(* it committed and the keys _bump_related_events bumped                   *)
CheckinResp(kind, token, srow, marks) ==
    [kind |-> kind, token |-> token, local |-> FALSE,
     wrote |-> IF Writes(kind, marks) THEN srow ELSE NoSession,
     bumps |-> IF Writes(kind, marks) THEN {"date", "lesson"} ELSE {}]

(* ---- journal_checkin_page: lines 2388-2424, the token, the lesson and   *)
(* what the gate reads; a request the gate does not apply to is answered   *)
(* here                                                                    *)
CheckinRead(r) ==
    /\ TakesRequest(r)
    /\ \E token \in Tokens \cup {BadToken} :
        LET srow == SessionByToken(token) IN
          IF srow = NoSession
          THEN \E marks \in BOOLEAN :
                 /\ resp' = CheckinResp("invalid_link", token, srow, marks)
                 /\ UNCHANGED <<cpc, creq>>
          ELSE IF ~lesson[srow]
          THEN \E marks \in BOOLEAN :
                 /\ resp' = CheckinResp("no_lesson", token, srow, marks)
                 /\ UNCHANGED <<cpc, creq>>
          ELSE \E local \in BOOLEAN :
                 IF IsLocalRequest(local)
                 THEN \E marks \in BOOLEAN :
                        /\ resp' = CheckinResp("accepted", token, srow, marks)
                        /\ UNCHANGED <<cpc, creq>>
                 ELSE \E host \in Hosts :
                        /\ cpc' = [cpc EXCEPT ![r] = "decide"]
                        /\ creq' = [creq EXCEPT ![r] =
                                      [srow |-> srow,
                                       adopt |-> AdoptsKey(host, active_public_session_key),
                                       akey |-> active_public_session_key]]
                        /\ resp' = CheckinResp("pending", token, srow, FALSE)
    /\ UNCHANGED <<active_public_session_key, lesson, qr_token, hpc, hkey, hok>>
    /\ TunnelQuiet

(* ---- journal_checkin_page: lines 2426-2498, adopt the key, decide, write ---- *)
CheckinDecide(r) ==
    /\ cpc[r] = "decide"
    /\ \E marks \in BOOLEAN :
        LET current == PublicSessionKey(creq[r].srow)
            active == IF creq[r].adopt THEN current ELSE creq[r].akey
            inactive == active = NoKey \/ active # current
        IN  /\ active_public_session_key' =
                  IF creq[r].adopt THEN current ELSE active_public_session_key
            /\ resp' = CheckinResp(IF inactive THEN "inactive" ELSE "accepted",
                                    BadToken, creq[r].srow, marks)
    /\ cpc' = [cpc EXCEPT ![r] = "idle"]
    /\ creq' = [creq EXCEPT ![r] = NoCheckin]
    /\ UNCHANGED <<lesson, qr_token, hpc, hkey, hok>>
    /\ TunnelQuiet

(* the open or close endpoint let the caller in and went to work; nothing  *)
(* is sent yet                                                             *)
Begun(kind, local) == [NoResp EXCEPT !.kind = kind, !.local = local]

(* a request that _restrict_public_routes or the endpoint itself refuses *)
Refused(local) ==
    /\ resp' = [kind |-> "refused", token |-> BadToken, local |-> local,
                wrote |-> NoSession, bumps |-> {}]
    /\ UNCHANGED <<active_public_session_key, hpc, hkey, hok>>

(* ---- journal_open_public_qr: lines 2194-2219 ---- *)
QrOpenBegin(t) ==
    /\ TakesControl(t)
    /\ \E local \in BOOLEAN, k \in Sessions :
        IF ~Admitted(local, FALSE) \/ ~IsLocalRequest(local)
        THEN Refused(local)
        ELSE IF ~lesson[k]
        THEN /\ resp' = [kind |-> "bad_request", token |-> BadToken, local |-> local,
                         wrote |-> NoSession, bumps |-> {}]
             /\ UNCHANGED <<active_public_session_key, hpc, hkey, hok>>
        ELSE /\ active_public_session_key' = PublicSessionKey(k)
             /\ hpc' = [hpc EXCEPT ![t] = "open_call"]
             /\ hkey' = [hkey EXCEPT ![t] = k]
             /\ hok' = hok
             /\ resp' = Begun("open_begun", local)
    /\ UNCHANGED <<lesson, qr_token, cpc, creq>>
    /\ TunnelQuiet

(* ---- journal_open_public_qr: line 2221, inside tunnel.open() ---- *)
QrOpenCall(t) ==
    /\ hpc[t] = "open_call"
    /\ \/ OperatorOpenNoSsh(t)
       \/ OpenRunning(t)
       \/ OpenSpawn(t)
       \/ OpenSpawnFails(t)
       \/ OpenPoll(t)
       \/ OpenTimeout(t)
    /\ hpc' = [hpc EXCEPT ![t] = IF ret'.kind = "none" THEN "open_call" ELSE "open_done"]
    /\ hok' = [hok EXCEPT ![t] = ret'.kind = "active"]
    /\ resp' = NoResp
    /\ UNCHANGED <<active_public_session_key, lesson, qr_token, cpc, creq, hkey>>

(* ---- journal_open_public_qr: lines 2222-2241; ajax: the response carries *)
(* _lesson_qr_payload                                                      *)
QrOpenFinish(t) ==
    /\ hpc[t] = "open_done"
    /\ \E ajax \in BOOLEAN :
        LET active == Snapshot.active
            ok == hok[t] \/ active
            k == hkey[t]
            payload == ok /\ ajax /\ lesson[k]
            key1 == IF ~ok /\ ~active THEN NoKey ELSE active_public_session_key
        IN  /\ qr_token' = IF payload THEN EnsuredToken(qr_token, k) ELSE qr_token
            /\ active_public_session_key' =
                  IF payload THEN KeyAfterCheckinUrls(key1, k) ELSE key1
            /\ resp' = [kind |-> IF ok THEN "open_ok" ELSE "open_failed",
                        token |-> BadToken, local |-> TRUE, wrote |-> NoSession,
                        bumps |-> IF ok THEN {"lesson", "tunnel"} ELSE {}]
    /\ hpc' = [hpc EXCEPT ![t] = "idle"]
    /\ hkey' = [hkey EXCEPT ![t] = NoSession]
    /\ hok' = [hok EXCEPT ![t] = FALSE]
    /\ UNCHANGED <<lesson, cpc, creq>>
    /\ TunnelQuiet

(* ---- journal_close_public_qr: lines 2245-2253, tunnel.close(manual=True) begins ---- *)
QrCloseBegin(t) ==
    /\ TakesControl(t)
    /\ \E local \in BOOLEAN :
        IF ~Admitted(local, FALSE) \/ ~IsLocalRequest(local)
        THEN /\ Refused(local)
             /\ TunnelQuiet
        ELSE /\ OperatorClose(t)
             /\ hpc' = [hpc EXCEPT ![t] = IF ret'.kind = "none" THEN "close_call"
                                          ELSE "close_done"]
             /\ hok' = [hok EXCEPT ![t] = ret'.kind = "already_closed"]
             /\ resp' = Begun("close_begun", local)
             /\ UNCHANGED <<active_public_session_key, hkey>>
    /\ UNCHANGED <<lesson, qr_token, cpc, creq>>

(* ---- journal_close_public_qr: line 2253, inside tunnel.close() ---- *)
QrCloseCall(t) ==
    /\ hpc[t] = "close_call"
    /\ \/ CloseStop(t)
       \/ CloseStopFails(t)
       \/ CloseFinal(t)
    /\ hpc' = [hpc EXCEPT ![t] = IF ret'.kind = "none" THEN "close_call" ELSE "close_done"]
    /\ hok' = [hok EXCEPT ![t] = ret'.kind = "closed"]
    /\ resp' = NoResp
    /\ UNCHANGED <<active_public_session_key, lesson, qr_token, cpc, creq, hkey>>

(* ---- journal_close_public_qr: lines 2254-2270; scoped: the request names a lesson ---- *)
QrCloseFinish(t) ==
    /\ hpc[t] = "close_done"
    /\ \E scoped \in BOOLEAN :
        resp' = [kind |-> IF hok[t] THEN "closed" ELSE "close_failed",
                 token |-> BadToken, local |-> TRUE, wrote |-> NoSession,
                 bumps |-> IF scoped THEN {"tunnel", "lesson"} ELSE {"tunnel"}]
    /\ active_public_session_key' = NoKey
    /\ hpc' = [hpc EXCEPT ![t] = "idle"]
    /\ hok' = [hok EXCEPT ![t] = FALSE]
    /\ UNCHANGED <<lesson, qr_token, cpc, creq, hkey>>
    /\ TunnelQuiet

(* the rows that db.session.delete removes with a lesson: its sessions cascade *)
LessonsAfterDelete(deleted) == [k \in Sessions |-> lesson[k] /\ k \notin deleted]

TokensAfterDelete(deleted) == [k \in Sessions |-> IF k \in deleted THEN 0 ELSE qr_token[k]]

(* ---- api_journal_delete_lesson: lines 1858-1875; dated: the request    *)
(* carries a date                                                          *)
DeleteLesson(k) ==
    /\ lesson[k]
    /\ HandlerMayBegin
    /\ \E dated \in BOOLEAN :
        resp' = [kind |-> "deleted", token |-> BadToken, local |-> TRUE,
                 wrote |-> NoSession,
                 bumps |-> IF dated THEN {"date", "lesson"} ELSE {}]
    /\ lesson' = LessonsAfterDelete({k})
    /\ qr_token' = TokensAfterDelete({k})
    /\ UNCHANGED <<active_public_session_key, cpc, creq, hpc, hkey, hok>>
    /\ TunnelQuiet

(* api_journal_delete_lesson_scope, lines 1921-1925: the key is cleared    *)
(* when it equals the key of a deleted lesson and the date parameter       *)
KeyAfterDeleteScopeKept(key, deleted, dateParam) == key

KeyAfterDeleteScope(key, deleted, dateParam) ==
    IF dateParam = "session" /\ key # NoKey /\ key \in deleted THEN NoKey ELSE key

(* ---- api_journal_delete_lesson_scope: lines 1877-1936; scope "course"   *)
(* deletes every lesson of the course, here all that exist                 *)
DeleteLessonScope(k) ==
    /\ lesson[k]
    /\ HandlerMayBegin
    /\ \E dateParam \in DateParams, scope \in {"single", "course"} :
        LET deleted == IF scope = "single" THEN {k} ELSE {j \in Sessions : lesson[j]} IN
          /\ lesson' = LessonsAfterDelete(deleted)
          /\ qr_token' = TokensAfterDelete(deleted)
          /\ active_public_session_key' =
                IF dateParam = "none" THEN active_public_session_key
                ELSE KeyAfterDeleteScope(active_public_session_key, deleted, dateParam)
          /\ resp' = [kind |-> "deleted_scope", token |-> BadToken, local |-> TRUE,
                      wrote |-> NoSession,
                      bumps |-> IF dateParam # "none" THEN {"date", "lesson"} ELSE {}]
    /\ UNCHANGED <<cpc, creq, hpc, hkey, hok>>
    /\ TunnelQuiet

(* journal_regenerate_qr, line 2378: a token no session had before *)
TokenKept(g) == IF g = 0 THEN 1 ELSE g

GenerateQrToken(g) == g + 1

(* ---- journal_regenerate_qr: lines 2359-2386 ---- *)
RegenerateQr(k) ==
    /\ lesson[k]
    /\ HandlerMayBegin
    /\ qr_token[k] < MaxToken
    /\ \E ajax \in BOOLEAN :
        /\ qr_token' = [qr_token EXCEPT ![k] = GenerateQrToken(qr_token[k])]
        /\ active_public_session_key' =
              IF ajax THEN KeyAfterCheckinUrls(active_public_session_key, k)
              ELSE active_public_session_key
    /\ resp' = [kind |-> "regenerated", token |-> <<k, qr_token'[k]>>, local |-> TRUE,
                wrote |-> NoSession, bumps |-> {"lesson"}]
    /\ UNCHANGED <<lesson, cpc, creq, hpc, hkey, hok>>
    /\ TunnelQuiet

(* ---- the lesson page and its QR payload: _lesson_qr_payload, lines 941-971 ---- *)
ViewLessonQr(k) ==
    /\ lesson[k]
    /\ HandlerMayBegin
    /\ qr_token' = EnsuredToken(qr_token, k)
    /\ active_public_session_key' = KeyAfterCheckinUrls(active_public_session_key, k)
    /\ resp' = [kind |-> "viewed", token |-> BadToken, local |-> TRUE,
                wrote |-> NoSession, bumps |-> {}]
    /\ UNCHANGED <<lesson, cpc, creq, hpc, hkey, hok>>
    /\ TunnelQuiet

(* a step of the ssh child or of its reader thread while requests are served *)
GateIdle ==
    /\ resp' = NoResp
    /\ UNCHANGED <<active_public_session_key, lesson, qr_token, cpc, creq, hpc, hkey, hok>>

(* ===================== the streaming endpoints ========================== *)
(* journal_routes.py: generate() of stream_journal_date,                    *)
(* stream_journal_lesson_attendance and stream_journal_tunnel, which differ *)
(* only in the event key and in the projection they compute.  A stream is   *)
(* served by a waiter thread of the bus.                                    *)

(* event_key of the stream *)
StreamKey == PyStr("tunnel")

(* wait_for_change(event_key, version, timeout=30.0), in ticks *)
StreamTimeout == 1

NoEmit == [by |-> NoThread, kind |-> "none", version |-> 0]

VARIABLES
    spc,           \* per stream: "start", "initial", "loop", "waiting"
    lastVersion,   \* per stream: the local variable "version" of generate()
    initials,      \* per stream: initial projections yielded so far
    emit           \* what was yielded in the last step, and by which stream

streamVars == <<spc, lastVersion, initials, emit>>

StreamInit ==
    /\ spc = [s \in Waiters |-> "start"]
    /\ lastVersion = [s \in Waiters |-> 0]
    /\ initials = [s \in Waiters |-> 0]
    /\ emit = NoEmit

(* if next_version == version *)
UnchangedNever(next, last) == FALSE

Unchanged(next, last) == next = last

(* ---- version = get_version(event_key): lines 1500, 2139, 2170 ---- *)
StreamCapture(s) ==
    /\ spc[s] = "start"
    /\ GetVersion(s, StreamKey)
    /\ lastVersion' = [lastVersion EXCEPT ![s] = bret'[s]]
    /\ spc' = [spc EXCEPT ![s] = "initial"]
    /\ emit' = NoEmit
    /\ UNCHANGED initials

(* ---- the initial payload is computed and yielded: lines 1501-1502 ---- *)
StreamInitial(s) ==
    /\ spc[s] = "initial"
    /\ BusFinish(s)
    /\ initials' = [initials EXCEPT ![s] = @ + 1]
    /\ emit' = [by |-> s, kind |-> "initial", version |-> lastVersion[s]]
    /\ spc' = [spc EXCEPT ![s] = "loop"]
    /\ UNCHANGED lastVersion

(* ---- wait_for_change(event_key, version, timeout=30.0) is called: line 1505 ---- *)
StreamWait(s) ==
    /\ spc[s] = "loop"
    /\ WaitCall(s, StreamKey, lastVersion[s], StreamTimeout)
    /\ spc' = [spc EXCEPT ![s] = "waiting"]
    /\ emit' = NoEmit
    /\ UNCHANGED <<lastVersion, initials>>

(* a step of the bus inside that call, or of another thread *)
StreamQuiet ==
    /\ emit' = NoEmit
    /\ UNCHANGED <<spc, lastVersion, initials>>

(* ---- wait_for_change has returned: lines 1506-1511 ---- *)
StreamReturn(s) ==
    /\ spc[s] = "waiting"
    /\ bpc[s] = "w_done"
    /\ LET next_version == bret[s] IN
         IF Unchanged(next_version, lastVersion[s])
         THEN /\ emit' = [by |-> s, kind |-> "keepalive", version |-> lastVersion[s]]
              /\ UNCHANGED lastVersion
         ELSE /\ lastVersion' = [lastVersion EXCEPT ![s] = next_version]
              /\ emit' = [by |-> s, kind |-> "projection", version |-> next_version]
    /\ BusFinish(s)
    /\ spc' = [spc EXCEPT ![s] = "loop"]
    /\ UNCHANGED initials

(***************************************************************************)
(* Pure functions of journal_tunnel.py.  A string is a sequence of         *)
(* characters; a Python value is PyNone or PyStr of such a sequence.       *)
(***************************************************************************)

MaxPathLen == 3
MaxTailLen == 2

Strings(chars, n) == UNION {[1..k -> chars] : k \in 0..n}

(* str.strip() removes the whitespace of both ends *)
Whitespace == {" "}

RECURSIVE LStrip(_, _)
LStrip(s, chars) ==
    IF s # <<>> /\ Head(s) \in chars THEN LStrip(Tail(s), chars) ELSE s

RECURSIVE RStrip(_, _)
RStrip(s, chars) ==
    IF s # <<>> /\ s[Len(s)] \in chars
    THEN RStrip(SubSeq(s, 1, Len(s) - 1), chars)
    ELSE s

Strip(s) == LStrip(RStrip(s, Whitespace), Whitespace)

StartsWithAlways(s, prefix) == TRUE

StartsWith(s, prefix) ==
    /\ Len(s) >= Len(prefix)
    /\ SubSeq(s, 1, Len(prefix)) = prefix

(* str(value or "") *)
StrOrEmpty(value) == IF value.py = "str" THEN value.s ELSE <<>>

(* the paths a caller passes, and the values public_url takes: None or a   *)
(* latched URL, whose scheme and host are one element here                 *)
PathChars == {"/", "a", " "}
Paths == {PyNone} \cup {PyStr(s) : s \in Strings(PathChars, MaxPathLen)}
UrlHead == "https://t.lhr.life"
LatchedUrls == {PyStr(<<UrlHead>> \o t) : t \in Strings({"/", "a"}, MaxTailLen)}
UrlValues == {PyNone} \cup LatchedUrls

(* build_public_url_for_path(path), reading public_url under the lock *)
BuildPublicUrlForPath(url, path) ==
    LET stripped == Strip(StrOrEmpty(path))
        safe_path == IF stripped = <<>> THEN <<"/">>
                     ELSE IF ~StartsWith(stripped, <<"/">>) THEN <<"/">> \o stripped
                     ELSE stripped
        base == Strip(StrOrEmpty(url))
    IN  IF base = <<>> THEN <<>> ELSE RStrip(base, {"/"}) \o safe_path

Unconstructed == 0
NoResult == [py |-> "pending"]

VARIABLES fcall, fout, refresh_interval_seconds

pureVars == <<fcall, fout, refresh_interval_seconds>>

PureInit ==
    /\ fcall = [op |-> "none"]
    /\ fout = NoResult
    /\ refresh_interval_seconds = Unconstructed

BuildUrl(url, path) ==
    /\ refresh_interval_seconds # Unconstructed
    /\ fcall' = [op |-> "build", url |-> url, path |-> path]
    /\ fout' = PyStr(BuildPublicUrlForPath(url, path))
    /\ UNCHANGED refresh_interval_seconds

(* TUNNEL_REFRESH_SECONDS: unset, or a string of these characters *)
MaxEnvLen == 3
DigitChars == {"0", "3", "6"}
EnvChars == {"0", "6", "-", "x"}
EnvValues == {PyNone} \cup {PyStr(s) : s \in Strings(EnvChars, MaxEnvLen)}

DigitValue(c) == CASE c = "0" -> 0 [] c = "3" -> 3 [] c = "6" -> 6

RECURSIVE Decimal(_)
Decimal(s) ==
    IF s = <<>> THEN 0
    ELSE 10 * Decimal(SubSeq(s, 1, Len(s) - 1)) + DigitValue(s[Len(s)])

(* int(text): an optional sign and at least one digit, else ValueError *)
IntOf(text) ==
    LET negative == text # <<>> /\ Head(text) = "-"
        body == IF negative THEN Tail(text) ELSE text
        valid == body # <<>> /\ \A i \in 1..Len(body) : body[i] \in DigitChars
    IN  IF ~valid THEN [raised |-> TRUE, value |-> 0]
        ELSE [raised |-> FALSE,
              value |-> IF negative THEN 0 - Decimal(body) ELSE Decimal(body)]

DefaultRefreshSeconds == 300
DefaultRefreshText == <<"3", "0", "0">>
MinRefreshSeconds == 60

AtLeastNothing(floor, n) == n

(* max(floor, n) *)
AtLeast(floor, n) == IF n < floor THEN floor ELSE n

(* __init__, lines 92-96 *)
RefreshInterval(env) ==
    LET parsed == IntOf(IF env = PyNone THEN DefaultRefreshText ELSE env.s)
        refresh_seconds == IF parsed.raised THEN DefaultRefreshSeconds
                           ELSE parsed.value
    IN  AtLeast(MinRefreshSeconds, refresh_seconds)

ManagerConstruct(env) ==
    /\ refresh_interval_seconds = Unconstructed
    /\ fcall' = [op |-> "init", env |-> env]
    /\ fout' = NoResult
    /\ refresh_interval_seconds' = RefreshInterval(env)

(* A child output line is a sequence of whitespace-separated tokens; a     *)
(* token is an optional scheme, the dot-separated labels of a host and the *)
(* dot-separated labels of the text after the host's "/".                  *)
MaxTokens == 2

Token(scheme, host, path) == [scheme |-> scheme, host |-> host, path |-> path]

LineTokens ==
    {Token("https", <<"t", "lhr", "life">>, <<>>),
     Token("http", <<"u", "localhost", "run">>, <<>>),
     Token("https", <<"admin", "localhost", "run">>, <<>>),
     Token("https", <<"localhost", "run">>, <<"docs">>),
     Token("https", <<"evil", "com">>, <<>>),
     Token("https", <<"t", "lhr", "life", "evil", "com">>, <<>>),
     Token("https", <<"evil", "com">>, <<"t", "lhr", "life">>),
     Token("ftp", <<"t", "lhr", "life">>, <<>>),
     Token("none", <<"t", "lhr", "life">>, <<>>),
     Token("none", <<"admin", "localhost", "run">>, <<>>),
     Token("none", <<"connected">>, <<>>)}

Lines == Strings(LineTokens, MaxTokens)

DISALLOWED_PUBLIC_HOSTS == {<<"localhost", "run">>, <<"admin", "localhost", "run">>}
ALLOWED_PUBLIC_SUFFIXES == {<<"lhr", "life">>, <<"localhost", "run">>}

(* host.endswith(".lhr.life") or host.endswith(".localhost.run") *)
EndsWithAllowedSuffix(host) ==
    /\ Len(host) >= 3
    /\ SubSeq(host, Len(host) - 1, Len(host)) \in ALLOWED_PUBLIC_SUFFIXES

is_valid_public_url(url) ==
    /\ url.scheme \in {"http", "https"}
    /\ url.host # <<>>
    /\ url.host \notin DISALLOWED_PUBLIC_HOSTS
    /\ EndsWithAllowedSuffix(url.host)

(* PUBLIC_URL_RE.findall: the tokens that begin with http:// or https:// *)
PUBLIC_URL_RE(line) == SelectSeq(line, LAMBDA t : t.scheme \in {"http", "https"})

NoMatch == <<>>

(* HOST_RE.search on one run of labels: the leftmost label that is         *)
(* followed by an allowed suffix, with that suffix                         *)
RECURSIVE HostIn(_)
HostIn(labels) ==
    IF Len(labels) < 3 THEN NoMatch
    ELSE IF SubSeq(labels, 2, 3) \in ALLOWED_PUBLIC_SUFFIXES THEN SubSeq(labels, 1, 3)
    ELSE HostIn(Tail(labels))

(* HOST_RE.search on the line: the leftmost match of the whole text *)
RECURSIVE HOST_RE(_)
HOST_RE(line) ==
    IF line = <<>> THEN NoMatch
    ELSE IF HostIn(Head(line).host) # NoMatch THEN HostIn(Head(line).host)
    ELSE IF HostIn(Head(line).path) # NoMatch THEN HostIn(Head(line).path)
    ELSE HOST_RE(Tail(line))

RECURSIVE FirstValid(_)
FirstValid(candidates) ==
    IF candidates = <<>> THEN PyNone
    ELSE IF is_valid_public_url(Head(candidates)) THEN Head(candidates)
    ELSE FirstValid(Tail(candidates))

(* extract_public_url(line), lines 35-48 *)
extract_public_url(line) ==
    LET found == FirstValid(PUBLIC_URL_RE(line))
        host == HOST_RE(line)
        candidate == Token("https", host, <<>>)
    IN  IF found # PyNone THEN found
        ELSE IF host # NoMatch /\ is_valid_public_url(candidate) THEN candidate
        ELSE PyNone

ExtractLine(line) ==
    /\ refresh_interval_seconds # Unconstructed
    /\ fcall' = [op |-> "extract", line |-> line]
    /\ fout' = extract_public_url(line)
    /\ UNCHANGED refresh_interval_seconds

(* the manager as constructed with TUNNEL_REFRESH_SECONDS unset *)
PureIdle ==
    /\ fcall = [op |-> "none"]
    /\ fout = NoResult
    /\ refresh_interval_seconds = DefaultRefreshSeconds

(***************************************************************************)
(* Attendance writes of journal_routes.py: manual marking and QR check-in  *)
(* on the attendance event bus.  A handler's commit and each of its two    *)
(* bumps are separate steps; handlers of different requests interleave.    *)
(***************************************************************************)

NumMarkers == 2
NumStudents == 2
MaxMarks == 3

Markers == 1..NumMarkers
Students == 1..NumStudents
ATTENDANCE_STATUSES == {"present", "absent", "excused"}
NoRecord == "none"

(* every session of the model is a lesson of the same day *)
SessionLesson(k) == k
SessionDate(k) == 1

event_key_date(d) == [kind |-> "date", date |-> d]
event_key_lesson(l, d) == [kind |-> "lesson", lesson |-> l, date |-> d]
AttendanceKeys ==
    {event_key_date(SessionDate(k)) : k \in Sessions}
        \cup {event_key_lesson(SessionLesson(k), SessionDate(k)) : k \in Sessions}

RelatedEventsDateOnly(l, d) == <<event_key_date(d)>>

(* _bump_related_events: the date key, then the lesson key *)
RelatedEvents(l, d) == <<event_key_date(d), event_key_lesson(l, d)>>

NoMark == [via |-> "none"]

VARIABLES attendance, eventVersion, apc, areq, abumped, marksIssued

attVars == <<attendance, eventVersion, apc, areq, abumped, marksIssued>>

AttendanceInit ==
    /\ attendance = [k \in Sessions |-> [s \in Students |-> NoRecord]]
    /\ eventVersion = [key \in AttendanceKeys |-> 0]
    /\ apc = [h \in Markers |-> "idle"]
    /\ areq = [h \in Markers |-> NoMark]
    /\ abumped = [h \in Markers |-> <<>>]
    /\ marksIssued = 0

Mark(via, k, s, status, existing) ==
    [via |-> via, session |-> k, student |-> s, status |-> status, existing |-> existing]

MarkBegins(h) ==
    /\ apc[h] \in {"idle", "success", "info", "error", "failed"}
    /\ marksIssued < MaxMarks
    /\ marksIssued' = marksIssued + 1
    /\ abumped' = [abumped EXCEPT ![h] = <<>>]

(* journal_set_attendance, lines 2273-2345: a request that fails a         *)
(* validation is answered before any write; otherwise the record is        *)
(* changed or added in the handler's database session                      *)
SetAttendance(h, k, s, status, valid) ==
    /\ MarkBegins(h)
    /\ areq' = [areq EXCEPT ![h] = Mark("manual", k, s, status, attendance[k][s] # NoRecord)]
    /\ apc' = [apc EXCEPT ![h] = IF valid THEN "written" ELSE "error"]
    /\ UNCHANGED <<attendance, eventVersion>>

(* journal_checkin_page, lines 2464-2494, behind the gate: an unknown      *)
(* student is an error, a student already present is told so, any other    *)
(* student is marked present                                               *)
CheckinPost(h, k, s, known) ==
    /\ MarkBegins(h)
    /\ areq' = [areq EXCEPT ![h] = Mark("qr", k, s, "present", attendance[k][s] # NoRecord)]
    /\ apc' = [apc EXCEPT ![h] =
                  IF ~known THEN "error"
                  ELSE IF attendance[k][s] = "present" THEN "info"
                  ELSE "written"]
    /\ UNCHANGED <<attendance, eventVersion>>

(* db.session.commit(), lines 2344 and 2495: an insert of a record that    *)
(* another request has inserted meanwhile violates the unique constraint   *)
(* of (session_id, student_id) and raises                                  *)
MarkCommit(h) ==
    /\ apc[h] = "written"
    /\ LET r == areq[h]
           conflict == ~r.existing /\ attendance[r.session][r.student] # NoRecord
       IN  IF conflict
           THEN /\ apc' = [apc EXCEPT ![h] = "failed"]
                /\ UNCHANGED attendance
           ELSE /\ apc' = [apc EXCEPT ![h] = "committed"]
                /\ attendance' = [attendance EXCEPT ![r.session][r.student] = r.status]
    /\ UNCHANGED <<eventVersion, areq, abumped, marksIssued>>

(* _bump_related_events, lines 2345 and 2496: one bump per step *)
MarkBump(h) ==
    /\ apc[h] = "committed"
    /\ LET r == areq[h]
           keys == RelatedEvents(SessionLesson(r.session), SessionDate(r.session))
           key == keys[Len(abumped[h]) + 1]
       IN  /\ eventVersion' = [eventVersion EXCEPT ![key] = @ + 1]
           /\ abumped' = [abumped EXCEPT ![h] = Append(@, key)]
           /\ apc' = [apc EXCEPT ![h] =
                         IF Len(abumped[h]) + 1 = Len(keys) THEN "success" ELSE "committed"]
    /\ UNCHANGED <<attendance, areq, marksIssued>>

(***************************************************************************)
(* The two locks: the manager's threading.Lock (journal_tunnel.py:78) and  *)
(* the bus's threading.Condition (journal_realtime.py:7).  A thread runs   *)
(* one lock program at a time, one lock operation per step.                *)
(***************************************************************************)

NumLockThreads == 3

LockThreads == 1..NumLockThreads

(* _emit_state_change with the callback tunnel_events.bump("tunnel") *)
EmitStateChange == <<"acq_cond", "notify", "rel_cond">>

LockKinds == {"plain_block", "callback_block", "exit_block", "get_version", "wait_for_change"}

(* the stream computing its payload inside wait_for_change's lock *)
ProgramPayloadUnderCond(kind) ==
    CASE kind = "plain_block" -> <<"acq_lock", "rel_lock">>
      [] kind = "callback_block" -> <<"acq_lock">> \o EmitStateChange \o <<"rel_lock">>
      [] kind = "exit_block" ->
            <<"acq_lock">> \o EmitStateChange \o EmitStateChange \o <<"rel_lock">>
      [] kind = "get_version" -> <<"acq_cond", "rel_cond">>
      [] kind = "wait_for_change" -> <<"acq_cond", "wait", "acq_lock", "rel_lock", "rel_cond">>

(* plain_block: a "with self.lock:" block without a callback (snapshot,    *)
(* build_public_url_for_path, a pass of open()'s wait loop, the worker's   *)
(* check); callback_block: a block that calls _emit_state_change once;     *)
(* exit_block: the reader's finally block, which calls it twice;           *)
(* get_version and wait_for_change: the methods of the bus                 *)
Program(kind) ==
    CASE kind = "plain_block" -> <<"acq_lock", "rel_lock">>
      [] kind = "callback_block" -> <<"acq_lock">> \o EmitStateChange \o <<"rel_lock">>
      [] kind = "exit_block" ->
            <<"acq_lock">> \o EmitStateChange \o EmitStateChange \o <<"rel_lock">>
      [] kind = "get_version" -> <<"acq_cond", "rel_cond">>
      [] kind = "wait_for_change" -> <<"acq_cond", "wait", "rel_cond">>

VARIABLES
    mgrLockOwner,   \* the thread inside "with self.lock:", or NoThread
    busLockOwner,   \* the thread inside "with self._cond:", or NoThread
    lprog,          \* per thread: the lock program it runs, <<>> when it runs none
    lpos,           \* per thread: the operation it is at
    lmode           \* per thread: "run", "sleeping" in _cond.wait, "woken" from it

lockVars == <<mgrLockOwner, busLockOwner, lprog, lpos, lmode>>

LocksInit ==
    /\ mgrLockOwner = NoThread
    /\ busLockOwner = NoThread
    /\ lprog = [t \in LockThreads |-> <<>>]
    /\ lpos = [t \in LockThreads |-> 1]
    /\ lmode = [t \in LockThreads |-> "run"]

(* the operation thread t is at, "none" when it runs no program *)
LockOp(t) == IF lprog[t] = <<>> THEN "none" ELSE lprog[t][lpos[t]]

(* the thread moves past its operation; the program ends after the last *)
LockAdvance(t) ==
    IF lpos[t] = Len(lprog[t])
    THEN /\ lprog' = [lprog EXCEPT ![t] = <<>>]
         /\ lpos' = [lpos EXCEPT ![t] = 1]
    ELSE /\ lprog' = lprog
         /\ lpos' = [lpos EXCEPT ![t] = @ + 1]

LockBegin(t, kind) ==
    /\ lprog[t] = <<>>
    /\ lprog' = [lprog EXCEPT ![t] = Program(kind)]
    /\ UNCHANGED <<mgrLockOwner, busLockOwner, lpos, lmode>>

(* threading.Lock is not reentrant: acquire waits while any thread owns it *)
AcquireManagerLock(t) ==
    /\ lmode[t] = "run"
    /\ LockOp(t) = "acq_lock"
    /\ mgrLockOwner = NoThread
    /\ mgrLockOwner' = t
    /\ LockAdvance(t)
    /\ UNCHANGED <<busLockOwner, lmode>>

ReleaseManagerLock(t) ==
    /\ lmode[t] = "run"
    /\ LockOp(t) = "rel_lock"
    /\ mgrLockOwner' = NoThread
    /\ LockAdvance(t)
    /\ UNCHANGED <<busLockOwner, lmode>>

AcquireBusLock(t) ==
    /\ lmode[t] = "run"
    /\ LockOp(t) = "acq_cond"
    /\ busLockOwner = NoThread
    /\ busLockOwner' = t
    /\ LockAdvance(t)
    /\ UNCHANGED <<mgrLockOwner, lmode>>

(* bump: notify_all wakes every thread sleeping in _cond.wait *)
NotifyBus(t) ==
    /\ lmode[t] = "run"
    /\ LockOp(t) = "notify"
    /\ lmode' = [u \in LockThreads |-> IF lmode[u] = "sleeping" THEN "woken" ELSE lmode[u]]
    /\ LockAdvance(t)
    /\ UNCHANGED <<mgrLockOwner, busLockOwner>>

ReleaseBusLock(t) ==
    /\ lmode[t] = "run"
    /\ LockOp(t) = "rel_cond"
    /\ busLockOwner' = NoThread
    /\ LockAdvance(t)
    /\ UNCHANGED <<mgrLockOwner, lmode>>

(* wait_for_change, lines 25-30: the version differs or the deadline has   *)
(* passed, and the method returns                                          *)
WaitReturnsNow(t) ==
    /\ lmode[t] = "run"
    /\ LockOp(t) = "wait"
    /\ LockAdvance(t)
    /\ UNCHANGED <<mgrLockOwner, busLockOwner, lmode>>

(* wait_for_change, line 31: _cond.wait releases the lock and sleeps *)
WaitSleeps(t) ==
    /\ lmode[t] = "run"
    /\ LockOp(t) = "wait"
    /\ busLockOwner' = NoThread
    /\ lmode' = [lmode EXCEPT ![t] = "sleeping"]
    /\ UNCHANGED <<mgrLockOwner, lprog, lpos>>

(* the timeout of _cond.wait ends the sleep *)
WaitTimesOut(t) ==
    /\ lmode[t] = "sleeping"
    /\ lmode' = [lmode EXCEPT ![t] = "woken"]
    /\ UNCHANGED <<mgrLockOwner, busLockOwner, lprog, lpos>>

(* _cond.wait takes the lock again before it returns into the loop *)
WaitReacquires(t) ==
    /\ lmode[t] = "woken"
    /\ busLockOwner = NoThread
    /\ busLockOwner' = t
    /\ lmode' = [lmode EXCEPT ![t] = "run"]
    /\ UNCHANGED <<mgrLockOwner, lprog, lpos>>

vars == <<busVars, tunVars, gateVars, streamVars, pureVars, attVars, lockVars>>

(* The event bus alone: the tunnel manager stays as constructed. *)
BusSystemInit == BusInit /\ TunnelInit /\ sshPresent /\ GateInit /\ StreamInit /\ PureIdle /\ AttendanceInit /\ LocksInit

BusNext ==
    \/ \E t \in Waiters, raw \in RawKeys : GetVersion(t, raw) /\ UNCHANGED <<tunVars, gateVars, streamVars, pureVars, attVars, lockVars>>
    \/ \E t \in Bumpers, raw \in RawKeys : BumpEnter(t, raw) /\ UNCHANGED <<tunVars, gateVars, streamVars, pureVars, attVars, lockVars>>
    \/ \E t \in Bumpers : BumpCommit(t) /\ UNCHANGED <<tunVars, gateVars, streamVars, pureVars, attVars, lockVars>>
    \/ \E t \in Waiters, raw \in RawKeys, last \in LastVersions, timeout \in Timeouts :
          WaitCall(t, raw, last, timeout) /\ UNCHANGED <<tunVars, gateVars, streamVars, pureVars, attVars, lockVars>>
    \/ \E t \in Waiters, timeout \in Timeouts : WaitCallAfterGet(t, timeout) /\ UNCHANGED <<tunVars, gateVars, streamVars, pureVars, attVars, lockVars>>
    \/ \E t \in Waiters : WaitLoop(t) /\ UNCHANGED <<tunVars, gateVars, streamVars, pureVars, attVars, lockVars>>
    \/ \E t \in Waiters : WaitTimeoutWake(t) /\ UNCHANGED <<tunVars, gateVars, streamVars, pureVars, attVars, lockVars>>
    \/ \E t \in Waiters : BusFinish(t) /\ UNCHANGED <<tunVars, gateVars, streamVars, pureVars, attVars, lockVars>>
    \/ BusTick /\ UNCHANGED <<tunVars, gateVars, streamVars, pureVars, attVars, lockVars>>

SpecBus == BusSystemInit /\ [][BusNext]_vars

(* The tunnel manager alone: the event bus stays as constructed. *)
TunnelSystemInit == TunnelInit /\ BusInit /\ GateInit /\ StreamInit /\ PureIdle /\ AttendanceInit /\ LocksInit

TunnelNext ==
    \/ \E t \in Operators : OperatorOpenNoSsh(t) /\ UNCHANGED <<busVars, gateVars, streamVars, pureVars, attVars, lockVars>>
    \/ \E t \in TunnelThreads : OpenRunning(t) /\ UNCHANGED <<busVars, gateVars, streamVars, pureVars, attVars, lockVars>>
    \/ \E t \in TunnelThreads : OpenSpawn(t) /\ UNCHANGED <<busVars, gateVars, streamVars, pureVars, attVars, lockVars>>
    \/ \E t \in TunnelThreads : OpenSpawnFails(t) /\ UNCHANGED <<busVars, gateVars, streamVars, pureVars, attVars, lockVars>>
    \/ \E t \in TunnelThreads : OpenPoll(t) /\ UNCHANGED <<busVars, gateVars, streamVars, pureVars, attVars, lockVars>>
    \/ \E t \in TunnelThreads : OpenTimeout(t) /\ UNCHANGED <<busVars, gateVars, streamVars, pureVars, attVars, lockVars>>
    \/ \E t \in Operators : OperatorClose(t) /\ UNCHANGED <<busVars, gateVars, streamVars, pureVars, attVars, lockVars>>
    \/ \E t \in Operators \cup {RefreshThread} : CloseStop(t) /\ UNCHANGED <<busVars, gateVars, streamVars, pureVars, attVars, lockVars>>
    \/ \E t \in Operators \cup {RefreshThread} : CloseStopFails(t) /\ UNCHANGED <<busVars, gateVars, streamVars, pureVars, attVars, lockVars>>
    \/ \E t \in Operators \cup {RefreshThread} : CloseFinal(t) /\ UNCHANGED <<busVars, gateVars, streamVars, pureVars, attVars, lockVars>>
    \/ \E p \in Procs : ProcExit(p) /\ UNCHANGED <<busVars, gateVars, streamVars, pureVars, attVars, lockVars>>
    \/ \E p \in Procs : ReaderLatch(p) /\ UNCHANGED <<busVars, gateVars, streamVars, pureVars, attVars, lockVars>>
    \/ \E p \in Procs : ReaderException(p) /\ UNCHANGED <<busVars, gateVars, streamVars, pureVars, attVars, lockVars>>
    \/ \E p \in Procs : ReaderEOF(p) /\ UNCHANGED <<busVars, gateVars, streamVars, pureVars, attVars, lockVars>>
    \/ \E p \in Procs : ReaderFinally(p) /\ UNCHANGED <<busVars, gateVars, streamVars, pureVars, attVars, lockVars>>
    \/ RefreshDeadlinePasses /\ UNCHANGED <<busVars, gateVars, streamVars, pureVars, attVars, lockVars>>
    \/ RefreshBegin /\ UNCHANGED <<busVars, gateVars, streamVars, pureVars, attVars, lockVars>>
    \/ RefreshClose /\ UNCHANGED <<busVars, gateVars, streamVars, pureVars, attVars, lockVars>>
    \/ RefreshAfterClose /\ UNCHANGED <<busVars, gateVars, streamVars, pureVars, attVars, lockVars>>
    \/ RefreshAfterOpen /\ UNCHANGED <<busVars, gateVars, streamVars, pureVars, attVars, lockVars>>
    \/ \E w \in Workers : WorkerCheck(w) /\ UNCHANGED <<busVars, gateVars, streamVars, pureVars, attVars, lockVars>>
    \/ \E w \in Workers : WorkerAfterOpen(w) /\ UNCHANGED <<busVars, gateVars, streamVars, pureVars, attVars, lockVars>>

SpecTunnel == TunnelSystemInit /\ [][TunnelNext]_vars

(* The tunnel manager with its background threads scheduled fairly: the    *)
(* rotation scheduler and every reconnect worker are threads of their own  *)
(* whose waits are bounded (time.sleep, open()'s wait budget, the timeouts *)
(* of proc.wait), so each of them eventually takes the step it is at.      *)
RefreshSteps ==
    \/ RefreshBegin
    \/ RefreshClose
    \/ CloseStop(RefreshThread)
    \/ CloseStopFails(RefreshThread)
    \/ CloseFinal(RefreshThread)
    \/ RefreshAfterClose
    \/ OpenRunning(RefreshThread)
    \/ OpenSpawn(RefreshThread)
    \/ OpenSpawnFails(RefreshThread)
    \/ OpenPoll(RefreshThread)
    \/ OpenTimeout(RefreshThread)
    \/ RefreshAfterOpen

WorkerSteps(w) ==
    \/ WorkerCheck(w)
    \/ OpenRunning(w)
    \/ OpenSpawn(w)
    \/ OpenSpawnFails(w)
    \/ OpenPoll(w)
    \/ OpenTimeout(w)
    \/ WorkerAfterOpen(w)

TunnelFairness ==
    /\ WF_tunVars(RefreshSteps)
    /\ \A w \in Workers : WF_tunVars(WorkerSteps(w))

(* one operator issues the requests, and the change callback returns      *)
(* normally                                                                *)
FairOperators == {1}
FairThreads == TunnelThreads \ (Operators \ FairOperators)
CallbackReturns == ~ext'.raised

TunnelFairNext ==
    \/ \E t \in FairOperators : OperatorOpenNoSsh(t) /\ UNCHANGED <<busVars, gateVars, streamVars, pureVars, attVars, lockVars>>
    \/ \E t \in FairThreads : OpenRunning(t) /\ UNCHANGED <<busVars, gateVars, streamVars, pureVars, attVars, lockVars>>
    \/ \E t \in FairThreads : OpenSpawn(t) /\ CallbackReturns /\ UNCHANGED <<busVars, gateVars, streamVars, pureVars, attVars, lockVars>>
    \/ \E t \in FairThreads : OpenSpawnFails(t) /\ UNCHANGED <<busVars, gateVars, streamVars, pureVars, attVars, lockVars>>
    \/ \E t \in FairThreads : OpenPoll(t) /\ UNCHANGED <<busVars, gateVars, streamVars, pureVars, attVars, lockVars>>
    \/ \E t \in FairThreads : OpenTimeout(t) /\ CallbackReturns /\ UNCHANGED <<busVars, gateVars, streamVars, pureVars, attVars, lockVars>>
    \/ \E t \in FairOperators : OperatorClose(t) /\ UNCHANGED <<busVars, gateVars, streamVars, pureVars, attVars, lockVars>>
    \/ \E t \in FairOperators \cup {RefreshThread} : CloseStop(t) /\ UNCHANGED <<busVars, gateVars, streamVars, pureVars, attVars, lockVars>>
    \/ \E t \in FairOperators \cup {RefreshThread} : CloseStopFails(t) /\ UNCHANGED <<busVars, gateVars, streamVars, pureVars, attVars, lockVars>>
    \/ \E t \in FairOperators \cup {RefreshThread} : CloseFinal(t) /\ CallbackReturns /\ UNCHANGED <<busVars, gateVars, streamVars, pureVars, attVars, lockVars>>
    \/ \E p \in Procs : ProcExit(p) /\ UNCHANGED <<busVars, gateVars, streamVars, pureVars, attVars, lockVars>>
    \/ \E p \in Procs : ReaderLatch(p) /\ CallbackReturns /\ UNCHANGED <<busVars, gateVars, streamVars, pureVars, attVars, lockVars>>
    \/ \E p \in Procs : ReaderException(p) /\ UNCHANGED <<busVars, gateVars, streamVars, pureVars, attVars, lockVars>>
    \/ \E p \in Procs : ReaderEOF(p) /\ CallbackReturns /\ UNCHANGED <<busVars, gateVars, streamVars, pureVars, attVars, lockVars>>
    \/ \E p \in Procs : ReaderFinally(p) /\ CallbackReturns /\ UNCHANGED <<busVars, gateVars, streamVars, pureVars, attVars, lockVars>>
    \/ RefreshDeadlinePasses /\ UNCHANGED <<busVars, gateVars, streamVars, pureVars, attVars, lockVars>>
    \/ RefreshBegin /\ CallbackReturns /\ UNCHANGED <<busVars, gateVars, streamVars, pureVars, attVars, lockVars>>
    \/ RefreshClose /\ UNCHANGED <<busVars, gateVars, streamVars, pureVars, attVars, lockVars>>
    \/ RefreshAfterClose /\ CallbackReturns /\ UNCHANGED <<busVars, gateVars, streamVars, pureVars, attVars, lockVars>>
    \/ RefreshAfterOpen /\ CallbackReturns /\ UNCHANGED <<busVars, gateVars, streamVars, pureVars, attVars, lockVars>>
    \/ \E w \in Workers : WorkerCheck(w) /\ UNCHANGED <<busVars, gateVars, streamVars, pureVars, attVars, lockVars>>
    \/ \E w \in Workers : WorkerAfterOpen(w) /\ CallbackReturns /\ UNCHANGED <<busVars, gateVars, streamVars, pureVars, attVars, lockVars>>

SpecTunnelFair == TunnelSystemInit /\ [][TunnelFairNext]_vars /\ TunnelFairness

(* The check-in gate with the operator endpoints that drive the tunnel:    *)
(* the reconnect worker and the rotation scheduler do not run, and the     *)
(* endpoints spawn at most MaxGateProcs ssh children.                      *)
SpawnsWithinGate == \A p \in Procs : p > MaxGateProcs => pstate'[p] = "unborn"

GateSystemInit == GateInit /\ TunnelInit /\ BusInit /\ StreamInit /\ PureIdle /\ AttendanceInit /\ LocksInit

GateNext ==
    \/ \E r \in Requests : CheckinRead(r) /\ UNCHANGED <<busVars, streamVars, pureVars, attVars, lockVars>>
    \/ \E r \in Requests : CheckinDecide(r) /\ UNCHANGED <<busVars, streamVars, pureVars, attVars, lockVars>>
    \/ \E t \in Operators : QrOpenBegin(t) /\ UNCHANGED <<busVars, streamVars, pureVars, attVars, lockVars>>
    \/ \E t \in Operators : QrOpenCall(t) /\ SpawnsWithinGate /\ UNCHANGED <<busVars, streamVars, pureVars, attVars, lockVars>>
    \/ \E t \in Operators : QrOpenFinish(t) /\ UNCHANGED <<busVars, streamVars, pureVars, attVars, lockVars>>
    \/ \E t \in Operators : QrCloseBegin(t) /\ UNCHANGED <<busVars, streamVars, pureVars, attVars, lockVars>>
    \/ \E t \in Operators : QrCloseCall(t) /\ UNCHANGED <<busVars, streamVars, pureVars, attVars, lockVars>>
    \/ \E t \in Operators : QrCloseFinish(t) /\ UNCHANGED <<busVars, streamVars, pureVars, attVars, lockVars>>
    \/ \E k \in Sessions : DeleteLesson(k) /\ UNCHANGED <<busVars, streamVars, pureVars, attVars, lockVars>>
    \/ \E k \in Sessions : DeleteLessonScope(k) /\ UNCHANGED <<busVars, streamVars, pureVars, attVars, lockVars>>
    \/ \E k \in Sessions : RegenerateQr(k) /\ UNCHANGED <<busVars, streamVars, pureVars, attVars, lockVars>>
    \/ \E k \in Sessions : ViewLessonQr(k) /\ UNCHANGED <<busVars, streamVars, pureVars, attVars, lockVars>>
    \/ \E p \in Procs : ProcExit(p) /\ GateIdle /\ UNCHANGED <<busVars, streamVars, pureVars, attVars, lockVars>>
    \/ \E p \in Procs : ReaderLatch(p) /\ GateIdle /\ UNCHANGED <<busVars, streamVars, pureVars, attVars, lockVars>>
    \/ \E p \in Procs : ReaderEOF(p) /\ GateIdle /\ UNCHANGED <<busVars, streamVars, pureVars, attVars, lockVars>>

SpecGate == GateSystemInit /\ [][GateNext]_vars

(* The streaming endpoints over the event bus, with concurrent bumps. *)
StreamSystemInit == BusInit /\ TunnelInit /\ sshPresent /\ GateInit /\ StreamInit /\ PureIdle /\ AttendanceInit /\ LocksInit

StreamNext ==
    \/ \E s \in Waiters : StreamCapture(s) /\ UNCHANGED <<tunVars, gateVars, pureVars, attVars, lockVars>>
    \/ \E s \in Waiters : StreamInitial(s) /\ UNCHANGED <<tunVars, gateVars, pureVars, attVars, lockVars>>
    \/ \E s \in Waiters : StreamWait(s) /\ UNCHANGED <<tunVars, gateVars, pureVars, attVars, lockVars>>
    \/ \E s \in Waiters : WaitLoop(s) /\ StreamQuiet /\ UNCHANGED <<tunVars, gateVars, pureVars, attVars, lockVars>>
    \/ \E s \in Waiters : WaitTimeoutWake(s) /\ StreamQuiet /\ UNCHANGED <<tunVars, gateVars, pureVars, attVars, lockVars>>
    \/ \E s \in Waiters : StreamReturn(s) /\ UNCHANGED <<tunVars, gateVars, pureVars, attVars, lockVars>>
    \/ \E t \in Bumpers, raw \in RawKeys : BumpEnter(t, raw) /\ StreamQuiet /\ UNCHANGED <<tunVars, gateVars, pureVars, attVars, lockVars>>
    \/ \E t \in Bumpers : BumpCommit(t) /\ StreamQuiet /\ UNCHANGED <<tunVars, gateVars, pureVars, attVars, lockVars>>
    \/ BusTick /\ StreamQuiet /\ UNCHANGED <<tunVars, gateVars, pureVars, attVars, lockVars>>

SpecStream == StreamSystemInit /\ [][StreamNext]_vars

(* The pure functions of the tunnel module, applied to drawn inputs by a   *)
(* manager that is constructed first; nothing else runs.                   *)
PureSystemInit == BusInit /\ TunnelInit /\ GateInit /\ StreamInit /\ PureInit /\ AttendanceInit /\ LocksInit

PureNext ==
    \/ \E env \in EnvValues : ManagerConstruct(env) /\ UNCHANGED <<busVars, tunVars, gateVars, streamVars, attVars, lockVars>>
    \/ \E url \in UrlValues, path \in Paths :
          BuildUrl(url, path) /\ UNCHANGED <<busVars, tunVars, gateVars, streamVars, attVars, lockVars>>
    \/ \E line \in Lines : ExtractLine(line) /\ UNCHANGED <<busVars, tunVars, gateVars, streamVars, attVars, lockVars>>

SpecPure == PureSystemInit /\ [][PureNext]_vars

(* Attendance writes alone: concurrent manual markings and check-ins. *)
AttendanceSystemInit == BusInit /\ TunnelInit /\ GateInit /\ StreamInit /\ PureIdle /\ AttendanceInit /\ LocksInit

AttendanceNext ==
    \/ \E h \in Markers, k \in Sessions, s \in Students, status \in ATTENDANCE_STATUSES, valid \in BOOLEAN :
          SetAttendance(h, k, s, status, valid) /\ UNCHANGED <<busVars, tunVars, gateVars, streamVars, pureVars, lockVars>>
    \/ \E h \in Markers, k \in Sessions, s \in Students, known \in BOOLEAN :
          CheckinPost(h, k, s, known) /\ UNCHANGED <<busVars, tunVars, gateVars, streamVars, pureVars, lockVars>>
    \/ \E h \in Markers : MarkCommit(h) /\ UNCHANGED <<busVars, tunVars, gateVars, streamVars, pureVars, lockVars>>
    \/ \E h \in Markers : MarkBump(h) /\ UNCHANGED <<busVars, tunVars, gateVars, streamVars, pureVars, lockVars>>

SpecAttendance == AttendanceSystemInit /\ [][AttendanceNext]_vars

(* The lock programs alone. *)
LockSystemInit == BusInit /\ TunnelInit /\ GateInit /\ StreamInit /\ PureIdle /\ AttendanceInit /\ LocksInit

LockNext ==
    \/ \E t \in LockThreads, kind \in LockKinds : LockBegin(t, kind) /\ UNCHANGED <<busVars, tunVars, gateVars, streamVars, pureVars, attVars>>
    \/ \E t \in LockThreads : AcquireManagerLock(t) /\ UNCHANGED <<busVars, tunVars, gateVars, streamVars, pureVars, attVars>>
    \/ \E t \in LockThreads : ReleaseManagerLock(t) /\ UNCHANGED <<busVars, tunVars, gateVars, streamVars, pureVars, attVars>>
    \/ \E t \in LockThreads : AcquireBusLock(t) /\ UNCHANGED <<busVars, tunVars, gateVars, streamVars, pureVars, attVars>>
    \/ \E t \in LockThreads : NotifyBus(t) /\ UNCHANGED <<busVars, tunVars, gateVars, streamVars, pureVars, attVars>>
    \/ \E t \in LockThreads : ReleaseBusLock(t) /\ UNCHANGED <<busVars, tunVars, gateVars, streamVars, pureVars, attVars>>
    \/ \E t \in LockThreads : WaitReturnsNow(t) /\ UNCHANGED <<busVars, tunVars, gateVars, streamVars, pureVars, attVars>>
    \/ \E t \in LockThreads : WaitSleeps(t) /\ UNCHANGED <<busVars, tunVars, gateVars, streamVars, pureVars, attVars>>
    \/ \E t \in LockThreads : WaitTimesOut(t) /\ UNCHANGED <<busVars, tunVars, gateVars, streamVars, pureVars, attVars>>
    \/ \E t \in LockThreads : WaitReacquires(t) /\ UNCHANGED <<busVars, tunVars, gateVars, streamVars, pureVars, attVars>>

SpecLocks == LockSystemInit /\ [][LockNext]_vars

(***************************************************************************)
(* Properties of the event bus.                                            *)
(***************************************************************************)

(* C1: no lost update.  For every key the version lies between the number  *)
(* of bump calls that have returned and the number that have entered, so   *)
(* once all N concurrent bump(K) calls have returned get_version(K) is the *)
(* initial version plus exactly N.                                         *)
C1_NoLostUpdate ==
    \A k \in SafeKeys :
        /\ bumpsReturned[k] <= Lookup(versions, k)
        /\ Lookup(versions, k) <= bumpsStarted[k]

C1_Witness ==
    \E k \in SafeKeys : bumpsReturned[k] = 2 /\ Lookup(versions, k) = 2

(* C2: no missed wakeup.  A caller that read v = get_version(K) and then   *)
(* waits with last_version = v is never left blocked in the condition wait *)
(* once a bump(K) has returned after its read, and its wait_for_change     *)
(* returns a version different from v.                                     *)
C2_NoMissedWakeup ==
    \A t \in Waiters :
        (bchained[t] /\ bumpedSince[t]) =>
            /\ bpc[t] # "w_blocked"
            /\ bpc[t] = "w_done" => bret[t] # blast[t]

C2_Witness ==
    \E t \in Waiters :
        /\ bpc[t] = "w_woken"
        /\ bchained[t]
        /\ bumpedSince[t]
        /\ now < bdeadline[t]

(* C3: wait_for_change returns the key's current version; the value equals *)
(* last_version only if the deadline has passed with the version still     *)
(* equal to last_version.  A waiter woken by a bump of another key goes    *)
(* back to waiting instead of returning early.                             *)
C3_ReturnRule ==
    [][\A t \in Waiters :
          (bpc[t] # "w_done" /\ bpc'[t] = "w_done") =>
              /\ bret'[t] = Lookup(versions', bkey[t])
              /\ bret'[t] = blast[t] => now >= bdeadline[t]]_vars

C3_Witness ==
    \E t \in Waiters :
        /\ bpc[t] = "w_woken"
        /\ Lookup(versions, bkey[t]) = blast[t]
        /\ now < bdeadline[t]

(* C4: a key that was never bumped has version 0: get_version returns 0    *)
(* for it, and neither get_version nor wait_for_change on it creates an    *)
(* entry or changes its value.                                             *)
C4_UnseenKeyIsZero ==
    \A k \in SafeKeys :
        bumpsStarted[k] = 0 =>
            /\ Lookup(versions, k) = 0
            /\ \A t \in Waiters :
                  (bpc[t] \in {"g_done", "w_done"} /\ bkey[t] = k) => bret[t] = 0

C4_Witness ==
    \E t \in Waiters :
        /\ bpc[t] = "w_done"
        /\ bumpsStarted[bkey[t]] = 0
        /\ bret[t] = 0
        /\ \E k \in SafeKeys : bumpsReturned[k] > 0

(* C5: every step leaves each key's version at least as large as before;  *)
(* the step in which a bump(K) stores its value raises K's version by      *)
(* exactly 1 and leaves every other key's version unchanged.               *)
C5_BumpFrame ==
    [][/\ \A k \in SafeKeys : Lookup(versions', k) >= Lookup(versions, k)
       /\ \A t \in Bumpers :
             (bpc[t] = "b_write" /\ bpc'[t] = "idle") =>
                 /\ Lookup(versions', bkey[t]) = Lookup(versions, bkey[t]) + 1
                 /\ \A k \in SafeKeys \ {bkey[t]} :
                       Lookup(versions', k) = Lookup(versions, k)]_vars

C5_Witness ==
    /\ Lookup(versions, "") = 1
    /\ Lookup(versions, "tunnel") = 1

(***************************************************************************)
(* Properties of JournalTunnelManager                                      *)
(***************************************************************************)
AutoThreads == Workers \cup {RefreshThread}

Closers == Operators \cup {RefreshThread}

(* thread t runs the first lock block of open() in this step *)
OpenBlockStep(t) ==
    /\ IF t \in Operators THEN tpc[t] = "idle" ELSE tpc[t] = "o_lock"
    /\ \/ tpc'[t] = "o_poll"
       \/ /\ ret'.by = t
          /\ ret'.kind \in {"active", "starting", "spawn_failed"}

SomethingSpawned == \E p \in Procs : pstate[p] = "unborn" /\ pstate'[p] # "unborn"

(* C6: in every reachable state at most one spawned child process is alive *)
(* and every alive child is the one the manager's process handle refers to *)
C6_OneOwnedChild ==
    /\ Cardinality(AliveProcs) <= 1
    /\ \A p \in AliveProcs : process = p

(* C7: open() on a manager whose child is running with a latched URL       *)
(* returns success in the same step, spawns nothing and leaves the process *)
(* handle, the latched URL and the refresh deadline as they were           *)
C7_OpenIdempotent ==
    [][\A t \in TunnelThreads :
        (/\ OpenBlockStep(t)
         /\ process # NoProc
         /\ pstate[process] = "alive"
         /\ public_url # NoUrl)
        => /\ ret' = [by |-> t, kind |-> "active"]
           /\ ~SomethingSpawned
           /\ process' = process
           /\ public_url' = public_url
           /\ next_refresh_at' = next_refresh_at]_vars

(* an operator's open() found the child of the other operator's open()     *)
(* running with its URL latched, and returned success                      *)
C7_Witness ==
    \E t \in Operators : \E o \in Operators \ {t} :
        /\ ret = [by |-> t, kind |-> "active"]
        /\ tpc[o] = "o_poll"
        /\ process # NoProc
        /\ pstate[process] = "alive"
        /\ public_url = process
        /\ Cardinality(SpawnedProcs) = 1

(* C8 (amended): while the child the handle refers to is running, open()   *)
(* spawns nothing and keeps the handle, and when no URL is latched it      *)
(* returns "still starting"; open() spawns only when the handle is empty   *)
(* or refers to a process that has exited                                  *)
C8_StartingNoDuplicate ==
    [][\A t \in TunnelThreads :
        OpenBlockStep(t) =>
            /\ (process # NoProc /\ pstate[process] = "alive")
                => /\ ~SomethingSpawned
                   /\ process' = process
                   /\ (public_url = NoUrl => ret' = [by |-> t, kind |-> "starting"])
            /\ SomethingSpawned => (process = NoProc \/ pstate[process] = "exited")]_vars

(* an operator's open() found the child of the other operator's open()     *)
(* running without a URL, and returned "still starting"                    *)
C8_Witness ==
    \E t \in Operators : \E o \in Operators \ {t} :
        /\ ret = [by |-> t, kind |-> "starting"]
        /\ tpc[o] = "o_poll"
        /\ process # NoProc
        /\ pstate[process] = "alive"
        /\ public_url = NoUrl
        /\ Cardinality(SpawnedProcs) = 1

(* C8 as stated: open() on a running child without URL returns "still      *)
(* starting" and spawns nothing, and operator open() calls that overlap,   *)
(* with no close() in between, spawn one child in total: an open() never   *)
(* spawns while another operator's open() that spawned is still waiting    *)
C8_OneChildForConcurrentOpens ==
    [][\A t \in Operators :
        /\ (/\ OpenBlockStep(t)
            /\ process # NoProc
            /\ pstate[process] = "alive"
            /\ public_url = NoUrl)
            => (ret' = [by |-> t, kind |-> "starting"] /\ ~SomethingSpawned)
        /\ (/\ OpenBlockStep(t)
            /\ \E o \in Operators \ {t} : tpc[o] = "o_poll"
            /\ process # NoProc
            /\ \A c \in Closers : tpc[c] \notin {"c_stop", "c_final"})
            => ~SomethingSpawned]_vars

(* C9: after close(manual=True) has returned and until an operator calls   *)
(* open() again, no reconnect worker and no rotation runs open(): nothing  *)
(* is spawned by them and allow_reconnect is not switched on again         *)
C9_NoAutoReconnectAfterManualClose ==
    [][manualClosed => \A t \in AutoThreads : ~OpenBlockStep(t)]_vars

(* C10: when the reader of the owned child ends after the child has exited *)
(* and no close was requested, it stores an error message and clears the   *)
(* latched URL, so snapshot() and build_public_url_for_path() no longer    *)
(* show the URL of the dead child; a reconnect worker is started only if   *)
(* reconnection is allowed                                                 *)
C10_ReaderClearsUrl ==
    [][\A p \in Procs :
        (/\ rpc[p] \in {"reading", "finally"}
         /\ rpc'[p] = "done"
         /\ pstate[p] = "exited"
         /\ process = p
         /\ ~closing)
        => /\ error_message' # "None"
           /\ Snapshot'.public_url # p
           /\ PublicUrlBase' # p
           /\ ((reconnecting' /\ ~reconnecting) => allow_reconnect)]_vars

(* worker w leaves its loop in this step because all attempts have failed *)
WorkerExhaustedStep(w) ==
    /\ tpc[w] = "o_ret"
    /\ ~tok[w]
    /\ attempt[w] = max_reconnect_attempts
    /\ tpc'[w] = "w_off"

(* worker w calls open() in this step *)
WorkerCallsOpen(w) ==
    /\ tpc[w] = "w_check"
    /\ tpc'[w] \in {"o_lock", "o_ret"}

(* C11: the reconnect loop calls open() at most max_reconnect_attempts     *)
(* times, calls it only while reconnection is allowed, leaves the loop     *)
(* after the first successful open(), and when the attempts are used up    *)
(* the manager has no running child, holds the terminal error message and  *)
(* reconnecting is false                                                   *)
C11_ReconnectLoopBounded ==
    [][\A w \in Workers :
        /\ attempt'[w] <= max_reconnect_attempts
        /\ WorkerCallsOpen(w) => (allow_reconnect /\ attempt[w] >= 1)
        /\ (tpc[w] = "o_ret" /\ tok[w] /\ tpc'[w] # "o_ret") => tpc'[w] = "w_off"
        /\ WorkerExhaustedStep(w) =>
              /\ ~(process' # NoProc /\ pstate'[process'] = "alive")
              /\ error_message' = "reconnect_failed"
              /\ ~reconnecting']_vars

(* the _reconnect_worker threads that have been started and have not returned *)
RunningWorkers == {w \in Workers : tpc[w] # "w_off"}

(* C12: at most one reconnect worker exists at any time: no second         *)
(* _reconnect_worker thread is started while an earlier one has not yet    *)
(* returned                                                                *)
C12_OneReconnectWorker == Cardinality(RunningWorkers) <= 1

(* the rotation scheduler starts a rotation in this step (lines 332-345) *)
RotationBeginStep ==
    /\ tpc[RefreshThread] = "f_sleep"
    /\ tpc'[RefreshThread] = "f_close"

(* the rotation scheduler goes back to sleep in this step: the rotation it *)
(* had started is finished                                                 *)
RotationFinishStep ==
    /\ tpc[RefreshThread] \in {"c_ret", "o_ret"}
    /\ tpc'[RefreshThread] = "f_sleep"

(* calls of tunnel_events.bump("tunnel") in the last step: the change      *)
(* callback installed by register_journal_routes                           *)
TunnelKeyBumps == ext.callbacks

(* C13: a rotation starts from a running child with URL U1 latched,        *)
(* reconnection allowed, not closing, not reconnecting and the deadline    *)
(* passed; it raises the version of the tunnel key; and when it finishes   *)
(* U1 is not carried over: the URL then latched, if any, is not U1, unless *)
(* an error message is stored                                              *)
C13_RotationReplacesUrl ==
    [][/\ RotationBeginStep =>
            /\ process # NoProc /\ pstate[process] = "alive"
            /\ public_url # NoUrl
            /\ allow_reconnect /\ ~closing /\ ~reconnecting
            /\ next_refresh_at = "elapsed"
            /\ TunnelKeyBumps' >= 1
       /\ RotationFinishStep =>
            \/ public_url' # rotUrl
            \/ error_message' # "None"]_vars

(* C14: a rotation begins only from a state with allow_reconnect, not      *)
(* closing, not reconnecting, the child running and the deadline passed,   *)
(* and a rotation that has begun does not run open() once a manual close   *)
(* has returned before its reopen step                                     *)
C14_RotationGuarded ==
    [][/\ RotationBeginStep =>
            /\ allow_reconnect
            /\ ~closing
            /\ ~reconnecting
            /\ process # NoProc /\ pstate[process] = "alive"
            /\ next_refresh_at = "elapsed"
       /\ (manualClosed /\ OpenBlockStep(RefreshThread)) =>
            (~SomethingSpawned /\ allow_reconnect' = allow_reconnect)]_vars

(* What a client of snapshot() can tell apart: whether a URL is latched,   *)
(* whether an error message is set, and the reconnecting flag              *)
Observable == <<public_url # NoUrl, error_message # "None", reconnecting>>

(* C15: every step that acquires or clears the public URL, sets or clears  *)
(* the error message, or toggles the reconnecting flag invokes the change  *)
(* callback exactly once                                                   *)
C15_OneCallbackPerTransition ==
    [][Observable' # Observable => ext'.callbacks = 1]_vars

(* C16: no step performs an external call, the spawn of the child process  *)
(* or an invocation of the change callback, while holding the manager lock *)
C16_NoExternalCallUnderLock ==
    ext.locked => (ext.callbacks = 0 /\ ~ext.spawn)

(* C17: when the change callback raises, the step that invoked it ends as  *)
(* it does when the callback succeeds: open() and close() return a result  *)
(* and not an exception, no background thread and no reader is ended by    *)
(* the exception, and a reader that latched a URL keeps reading with the   *)
(* error message cleared                                                   *)
C17_CallbackFailureSwallowed ==
    [][ext'.raised =>
        /\ ret'.kind # "exception"
        /\ \A t \in AutoThreads : tpc'[t] # "crashed"
        /\ \A p \in Procs :
            /\ rpc'[p] # "crashed"
            /\ (rpc[p] = "reading" /\ public_url = NoUrl /\ public_url' = p)
                  => (rpc'[p] = "reading" /\ error_message' = "None")]_vars

(* the callback raised while the reader latched a URL, and the reader and  *)
(* the rotation scheduler are still in their loops                         *)
C17_Witness ==
    /\ ext.raised
    /\ ext.callbacks = 1
    /\ public_url # NoUrl
    /\ rpc[public_url] = "reading"
    /\ error_message = "None"
    /\ next_refresh_at = "future"
    /\ tpc[RefreshThread] = "f_sleep"

(* an open() returns in this step because the child could not be spawned *)
SpawnFailureReturned == ret'.kind \in {"no_ssh", "spawn_failed"}

SpawnFailedFor(t) ==
    /\ ret.by = t
    /\ ret.kind \in {"no_ssh", "spawn_failed"}
    /\ tpc[t] = "o_ret"

(* C19: a spawn failure is not retried automatically: when the open() of   *)
(* the reconnect worker or of the rotation scheduler has returned a spawn  *)
(* failure, the caller's next block neither goes on to another attempt nor *)
(* starts a reconnect worker                                               *)
C19_SpawnFailureNotRetried ==
    [][\A t \in AutoThreads :
         (SpawnFailedFor(t) /\ tpc'[t] # tpc[t]) =>
             \A w \in Workers : tpc'[w] = "w_off" \/ (w # t /\ tpc'[w] = tpc[w])]_vars

(* the results with which open() returns *)
OpenResults == {"no_ssh", "active", "starting", "spawn_failed", "exited", "no_url"}

(* C20: open() returns success exactly when a public URL is latched at the *)
(* moment it returns; a "still starting" failure leaves the child running  *)
(* and spawns nothing                                                      *)
C20_OpenSuccessIffUrl ==
    [][ret'.kind \in OpenResults =>
        /\ (ret'.kind = "active") <=> (public_url' # NoUrl)
        /\ ret'.kind = "starting" =>
              (process' = process /\ pstate' = pstate /\ pstate[process] = "alive")]_vars

(* C21: a close() that returns success leaves no process handle, no        *)
(* latched URL, no error message, no refresh deadline and reconnecting     *)
(* false; a close() returns failure only for a child that is still alive,  *)
(* leaves the handle and the URL as they were and clears the closing flag  *)
C21_CloseResult ==
    [][/\ ret'.kind \in {"already_closed", "closed"} =>
            /\ process' = NoProc
            /\ public_url' = NoUrl
            /\ error_message' = "None"
            /\ next_refresh_at' = "None"
            /\ ~reconnecting'
       /\ ret'.kind = "close_failed" =>
            /\ \E p \in Procs : pstate'[p] = "alive"
            /\ process' = process
            /\ public_url' = public_url
            /\ ~closing']_vars

(***************************************************************************)
(* Properties of the public check-in gate.                                 *)
(***************************************************************************)

(* request thread r reads the gate in this step: token and lesson resolved, *)
(* the caller is not local                                                  *)
GateReads(r) == cpc[r] = "idle" /\ cpc'[r] = "decide"

(* request thread r finishes a non-local check-in in this step *)
GateDecides(r) == cpc[r] = "decide" /\ cpc'[r] = "idle"

(* the step's response rejects the check-in as not currently active and    *)
(* writes no attendance                                                    *)
RejectedInactive == resp'.kind = "inactive" /\ resp'.wrote = NoSession

(* C22: a non-local check-in with the valid token of session S1 is         *)
(* rejected, with nothing written, when the key it reads names another     *)
(* session S2 that exists, whatever the tunnel state and the request host; *)
(* when the key it reads is S1 it is accepted                              *)
C22_GateRejectsOtherSession ==
    [][\A r \in Requests :
         /\ (/\ GateReads(r)
             /\ active_public_session_key \notin {NoKey, PublicSessionKey(creq'[r].srow)}
             /\ ActivePublicSessionExists(active_public_session_key))
               => ~creq'[r].adopt
         /\ GateDecides(r) =>
               /\ (~creq[r].adopt /\ creq[r].akey \notin {NoKey, PublicSessionKey(creq[r].srow)})
                     => RejectedInactive
               /\ creq[r].akey = PublicSessionKey(creq[r].srow)
                     => resp'.kind = "accepted"]_vars

(* a check-in was just rejected while the key names an existing session *)
C22_Witness ==
    /\ resp.kind = "inactive"
    /\ ActivePublicSessionExists(active_public_session_key)

(* C22 as stated: whenever the key read names another session, the request *)
(* is rejected and writes nothing                                          *)
C22_AsStated ==
    [][\A r \in Requests :
         (GateDecides(r) /\ creq[r].akey \notin {NoKey, PublicSessionKey(creq[r].srow)})
            => RejectedInactive]_vars

(* C23: a non-local check-in adopts its own session as the key only when   *)
(* the key it read is unset or names another session and does not resolve  *)
(* to an existing session (the third of the claim's recovery conditions,   *)
(* which the code requires under every host); a request that does not      *)
(* adopt leaves the key unchanged and, unless the key it read is its own,  *)
(* is rejected as not currently active                                     *)
C23_RecoveryOnlyWhenUnresolved ==
    [][\A r \in Requests :
         /\ (GateReads(r) /\ creq'[r].adopt) =>
               /\ active_public_session_key # PublicSessionKey(creq'[r].srow)
               /\ ~ActivePublicSessionExists(active_public_session_key)
         /\ (GateDecides(r) /\ creq[r].adopt) =>
               active_public_session_key' = PublicSessionKey(creq[r].srow)
         /\ (GateDecides(r) /\ ~creq[r].adopt) =>
               /\ active_public_session_key' = active_public_session_key
               /\ creq[r].akey # PublicSessionKey(creq[r].srow) => RejectedInactive]_vars

(* a request is about to replace a key that names a session which no longer resolves *)
C23_Witness ==
    \E r \in Requests :
        /\ cpc[r] = "decide"
        /\ creq[r].adopt
        /\ creq[r].akey \notin {NoKey, PublicSessionKey(creq[r].srow)}

(* the close endpoint returned in the step that led to this state *)
CloseEndpointReturned == resp.kind \in {"closed", "close_failed"}

(* C24: once the close endpoint has returned, whether or not the tunnel    *)
(* close succeeded, the key is empty and the next non-local check-in with  *)
(* a valid token does not take the key and is rejected as not currently    *)
(* active, writing nothing                                                 *)
C24_ClosedGateRejects ==
    [][CloseEndpointReturned =>
         /\ active_public_session_key = NoKey
         /\ \A r \in Requests : GateReads(r) => ~creq'[r].adopt]_vars

(* a check-in request is answered in the step in which it arrived *)
AnsweredAtOnce == cpc' = cpc /\ resp'.kind \in {"invalid_link", "no_lesson", "accepted"}

(* the responses of journal_checkin_page that carry an access error *)
CheckinErrors == {"invalid_link", "no_lesson", "inactive"}

(* C25: a check-in whose token resolves to no session is rejected as an    *)
(* invalid or stale link and one whose lesson is gone as lesson not found, *)
(* both as rendered error pages; an attendance row is written and event    *)
(* keys are bumped only by a request that is accepted, i.e. whose token    *)
(* and lesson resolved and, for a non-local caller, whose session is (or   *)
(* has just become) the active one                                         *)
C25_WriteOnlyAfterAllChecks ==
    [][/\ AnsweredAtOnce =>
            LET srow == SessionByToken(resp'.token) IN
              /\ (srow = NoSession) <=> (resp'.kind = "invalid_link")
              /\ (srow # NoSession /\ ~lesson[srow]) <=> (resp'.kind = "no_lesson")
       /\ resp'.kind \in CheckinErrors \cup {"pending"} =>
            (resp'.wrote = NoSession /\ resp'.bumps = {})
       /\ resp'.wrote # NoSession =>
            /\ resp'.kind = "accepted"
            /\ \A r \in Requests : GateDecides(r) =>
                  /\ resp'.wrote = creq[r].srow
                  /\ active_public_session_key' = PublicSessionKey(creq[r].srow)
                       \/ creq[r].akey = PublicSessionKey(creq[r].srow)]_vars

(* a link with a token that no session bears was just rejected *)
C25_Witness ==
    /\ resp.kind = "invalid_link"
    /\ resp.token \in Tokens
    /\ resp.wrote = NoSession
    /\ resp.bumps = {}

(* a lesson deletion endpoint returned in this step *)
LessonDeleted == resp'.kind \in {"deleted", "deleted_scope"}

(* C26: after any lesson deletion (either endpoint, with or without a date *)
(* parameter) the key does not name a deleted lesson                       *)
C26_KeyClearedOnDelete ==
    [][LessonDeleted =>
         (active_public_session_key' = NoKey \/ lesson'[active_public_session_key'])]_vars

(* a check-in request presented its token in this step *)
TokenPresented ==
    /\ resp'.kind \in {"invalid_link", "no_lesson", "accepted", "pending"}
    /\ cpc' = cpc \/ \E r \in Requests : GateReads(r)

(* the token that session k bears now, as a token of Tokens *)
CurrentToken(k) == <<k, qr_token[k]>>

(* C27: when journal_regenerate_qr commits, the token the session bore     *)
(* stops resolving and the new one resolves to the session; every check-in *)
(* request, local or not, that presents a token other than the one its     *)
(* session bears now is rejected as an invalid or stale link               *)
C27_RegenerateInvalidatesOldToken ==
    [][/\ \A k \in Sessions, old \in Tokens, new \in Tokens :
            (resp'.kind = "regenerated" /\ resp'.token = new /\ new[1] = k) =>
              /\ new = CurrentToken(k)'
              /\ SessionByToken(new)' = k
              /\ old = CurrentToken(k) =>
                    /\ SessionByToken(old) = k
                    /\ SessionByToken(old)' = NoSession
       /\ (TokenPresented /\ resp'.token \in Tokens
              /\ resp'.token # CurrentToken(resp'.token[1])) =>
            (resp'.kind = "invalid_link" /\ resp'.wrote = NoSession)]_vars

(* a request presenting the token its session bore before a regeneration   *)
(* was just rejected                                                       *)
C27_Witness ==
    /\ resp.kind = "invalid_link"
    /\ resp.token \in Tokens
    /\ resp.token[2] < qr_token[resp.token[1]]

(* the non-local check-in of thread r has read the gate and will store its *)
(* own key and be accepted                                                 *)
WillAdopt(r) == cpc[r] = "decide" /\ creq[r].adopt

(* C28: of two concurrent non-local check-ins with valid tokens of two     *)
(* different sessions at most one is accepted: while one of them has       *)
(* decided to take the key and the key is still as it read it, the other   *)
(* does not decide to take the key as well                                 *)
C28_AtMostOneAccepted ==
    [][\A r, q \in Requests :
         (/\ r # q
          /\ WillAdopt(r)
          /\ active_public_session_key = creq[r].akey
          /\ GateReads(q)
          /\ creq'[q].srow # creq[r].srow)
            => ~creq'[q].adopt]_vars

(* the steps in which the open or close endpoint takes a request *)
ControlTaken == resp'.kind \in {"refused", "bad_request", "open_begun", "close_begun"}

(* C29: a request to the open or close endpoint from a caller that is not  *)
(* classified as local is refused and changes neither the tunnel manager,  *)
(* its child and threads, nor the key, nor any event-key version           *)
C29_ControlLocalOnly ==
    [][(ControlTaken /\ ~resp'.local) =>
         /\ resp'.kind = "refused"
         /\ resp'.bumps = {}
         /\ UNCHANGED <<mgrVars, envVars, thrVars, manualClosed>>
         /\ UNCHANGED <<active_public_session_key, hpc, hkey, hok>>
         /\ UNCHANGED busVars]_vars

(* a non-local caller was just refused while a tunnel is open for a session *)
C29_Witness ==
    /\ resp.kind = "refused"
    /\ ~resp.local
    /\ public_url # NoUrl
    /\ active_public_session_key # NoKey

(***************************************************************************)
(* Properties of the streaming endpoints.                                  *)
(***************************************************************************)

(* wait_for_change returns to stream s in this step *)
WaitReturns(s) == spc[s] = "waiting" /\ spc'[s] = "loop"

(* C30: a stream reads get_version(key) before its initial projection and  *)
(* yields exactly one initial projection; at every return of               *)
(* wait_for_change it yields a keepalive if and only if the returned       *)
(* version equals lastVersion, and otherwise exactly one fresh projection  *)
(* with lastVersion set to the returned version; nothing else is yielded,  *)
(* and lastVersion never exceeds the bus's version of the key              *)
C30_StreamLoop ==
    [][\A s \in Waiters :
         /\ lastVersion'[s] <= Lookup(versions', SafeKey(StreamKey))
         /\ initials'[s] <= 1
         /\ spc'[s] \in {"loop", "waiting"} => initials'[s] = 1
         /\ (emit'.by = s /\ emit'.kind = "initial") =>
               /\ spc[s] = "initial"
               /\ bpc[s] = "g_done"
               /\ lastVersion[s] = bret[s]
               /\ initials[s] = 0
         /\ WaitReturns(s) =>
               /\ emit'.by = s
               /\ (emit'.kind = "keepalive") <=> (bret[s] = lastVersion[s])
               /\ (emit'.kind = "projection") <=> (bret[s] # lastVersion[s])
               /\ lastVersion'[s] = bret[s]
               /\ emit'.version = bret[s]
         /\ (emit'.by = s /\ emit'.kind \in {"keepalive", "projection"}) => WaitReturns(s)]_vars

(* a stream that has yielded its initial projection at version 0 has just  *)
(* yielded a fresh projection for a later version                          *)
C30_Witness ==
    /\ emit.kind = "projection"
    /\ emit.version > 0
    /\ \E s \in Waiters : emit.by = s /\ lastVersion[s] = emit.version /\ initials[s] = 1

(***************************************************************************)
(* Further properties of the tunnel manager.                               *)
(***************************************************************************)

(* the reader thread assigns public_url in this step (lines 193-197) *)
UrlLatchStep == ext'.latch

(* C31: the URL latch happens only while no URL is latched, so a latched   *)
(* URL is never replaced by a later output line and a URL appears only by  *)
(* a latch; the latch bumps the tunnel key exactly once                    *)
C31_LatchOnceAndBumps ==
    [][/\ UrlLatchStep =>
            /\ public_url = NoUrl
            /\ public_url' # NoUrl
            /\ TunnelKeyBumps' = 1
       /\ (public_url # NoUrl /\ public_url' # NoUrl) => public_url' = public_url
       /\ (public_url = NoUrl /\ public_url' # NoUrl) => UrlLatchStep]_vars

(* a URL was just latched and the tunnel key bumped once *)
C31_Witness ==
    /\ ext.latch
    /\ ext.callbacks = 1
    /\ public_url # NoUrl

(* C31 as stated: no step other than the URL latch bumps the tunnel key *)
C31_OnlyLatchBumps ==
    [][TunnelKeyBumps' > 0 => UrlLatchStep]_vars

(***************************************************************************)
(* Properties of the pure functions of the tunnel module.                  *)
(***************************************************************************)

(* the part of a built URL that follows the base without trailing slashes *)
BuiltPath(url, out) == SubSeq(out, Len(RStrip(url, {"/"})) + 1, Len(out))

(* C32: build_public_url_for_path returns the empty string while no URL is *)
(* latched; otherwise it returns the latched URL without its trailing      *)
(* slashes followed by the path, which begins with "/": a path that is     *)
(* empty once its surrounding whitespace is removed becomes "/", a path    *)
(* without a leading slash gets one, any other path is kept.  The call     *)
(* changes no state of the manager.                                        *)
C32_BuildPublicUrl ==
    [][fcall'.op = "build" =>
          LET url == fcall'.url
              path == Strip(StrOrEmpty(fcall'.path))
              out == fout'.s
          IN  /\ UNCHANGED <<tunVars, busVars, refresh_interval_seconds>>
              /\ url = PyNone => out = <<>>
              /\ url # PyNone =>
                    /\ StartsWith(out, RStrip(url.s, {"/"}))
                    /\ Head(BuiltPath(url.s, out)) = "/"
                    /\ path = <<>> => BuiltPath(url.s, out) = <<"/">>
                    /\ (path # <<>> /\ Head(path) = "/") => BuiltPath(url.s, out) = path
                    /\ (path # <<>> /\ Head(path) # "/") =>
                          BuiltPath(url.s, out) = <<"/">> \o path]_vars

C32_Witness ==
    /\ fcall.op = "build"
    /\ fcall.url = PyStr(<<UrlHead, "/", "/">>)
    /\ fcall.path = PyStr(<<"a", "/", "a">>)
    /\ fout = PyStr(<<UrlHead, "/", "a", "/", "a">>)

(* the constructor runs in this step *)
Constructs == refresh_interval_seconds = Unconstructed /\ fcall'.op = "init"

(* C33: for every value of TUNNEL_REFRESH_SECONDS the constructed refresh  *)
(* interval is at least 60: an unset or non-integer value gives 300, an    *)
(* integer below 60 gives 60, any other integer gives itself; no later     *)
(* step changes the interval.                                              *)
C33_RefreshInterval ==
    [][/\ Constructs =>
            LET env == fcall'.env
                parsed == IF env = PyNone THEN [raised |-> TRUE, value |-> 0]
                          ELSE IntOf(env.s)
            IN  /\ refresh_interval_seconds' >= MinRefreshSeconds
                /\ parsed.raised => refresh_interval_seconds' = DefaultRefreshSeconds
                /\ (~parsed.raised /\ parsed.value < MinRefreshSeconds) =>
                      refresh_interval_seconds' = MinRefreshSeconds
                /\ (~parsed.raised /\ parsed.value >= MinRefreshSeconds) =>
                      refresh_interval_seconds' = parsed.value
       /\ refresh_interval_seconds # Unconstructed =>
            refresh_interval_seconds' = refresh_interval_seconds]_vars

C33_Witness ==
    /\ fcall.op = "build"
    /\ refresh_interval_seconds = MinRefreshSeconds

(***************************************************************************)
(* Properties of the attendance writes.                                    *)
(***************************************************************************)

(* the two keys of the (lesson, date) a request writes to *)
KeysOf(r) ==
    {event_key_date(SessionDate(r.session)),
     event_key_lesson(SessionLesson(r.session), SessionDate(r.session))}

(* C34: a key of the attendance bus is bumped only by a handler whose      *)
(* record is already committed, and the key is one of the two keys of the  *)
(* written (lesson, date); the commit puts the record into the store; a    *)
(* handler reports success only after it bumped the date key and the       *)
(* lesson key, once each; a check-in of a student who is already present   *)
(* writes nothing and bumps nothing.                                       *)
C34_CommitThenBumpBoth ==
    [][\A h \in Markers :
          /\ (apc[h] # "committed" /\ apc'[h] = "committed") =>
                /\ attendance'[areq[h].session][areq[h].student] = areq[h].status
                /\ eventVersion' = eventVersion
          /\ abumped'[h] # abumped[h] /\ abumped'[h] # <<>> =>
                /\ apc[h] = "committed"
                /\ attendance' = attendance
                /\ \E key \in KeysOf(areq[h]) :
                      /\ abumped'[h] = Append(abumped[h], key)
                      /\ eventVersion' = [eventVersion EXCEPT ![key] = @ + 1]
          /\ (eventVersion' # eventVersion) => \E g \in Markers : abumped'[g] # abumped[g]
          /\ (apc[h] # "success" /\ apc'[h] = "success") =>
                /\ Len(abumped'[h]) = 2
                /\ {abumped'[h][i] : i \in 1..2} = KeysOf(areq[h])
          /\ (apc'[h] = "info" /\ areq'[h] # areq[h]) =>
                /\ areq'[h].via = "qr"
                /\ attendance[areq'[h].session][areq'[h].student] = "present"
                /\ attendance' = attendance
                /\ eventVersion' = eventVersion
          /\ apc'[h] = "info" => abumped'[h] = <<>>]_vars

C34_Witness ==
    \E h, g \in Markers :
        /\ apc[h] = "success"
        /\ areq[h].via = "qr"
        /\ Len(abumped[h]) = 2
        /\ apc[g] = "info"
        /\ areq[g].session = areq[h].session
        /\ areq[g].student = areq[h].student

(* the URLs of a line: its tokens that begin with http:// or https:// *)
UrlsOf(line) == PUBLIC_URL_RE(line)

(* the extracted URL has an allowed scheme and host *)
ExtractedIsAllowed ==
    (fcall.op = "extract" /\ fout # PyNone) =>
        /\ fout.scheme \in {"http", "https"}
        /\ EndsWithAllowedSuffix(fout.host)
        /\ fout.host \notin DISALLOWED_PUBLIC_HOSTS

(* of several URLs in a line the first valid one is extracted *)
FirstValidChosen ==
    fcall.op = "extract" =>
        \A i \in 1..Len(UrlsOf(fcall.line)) :
            (/\ is_valid_public_url(UrlsOf(fcall.line)[i])
             /\ \A j \in 1..(i - 1) : ~is_valid_public_url(UrlsOf(fcall.line)[j]))
                => fout = UrlsOf(fcall.line)[i]

(* C35: the extracted URL has scheme http or https and a host that ends    *)
(* with an allow-listed suffix and is not deny-listed; of several URLs in  *)
(* a line the first valid one is extracted; and a line that consists of    *)
(* URLs none of which is valid yields nothing.                             *)
C35_ExtractPublicUrl ==
    /\ ExtractedIsAllowed
    /\ FirstValidChosen
    /\ (/\ fcall.op = "extract"
        /\ fcall.line # <<>>
        /\ Len(UrlsOf(fcall.line)) = Len(fcall.line)
        /\ \A i \in 1..Len(fcall.line) : ~is_valid_public_url(fcall.line[i]))
           => fout = PyNone

(* the reader thread of child p runs its finally block in this step *)
ReaderHandlesExit(p) ==
    /\ rpc[p] \in {"reading", "finally"}
    /\ rpc'[p] \in {"done", "crashed"}

(* a reconnect worker thread is started in this step *)
WorkerStarted == \E w \in Workers : tpc[w] = "w_off" /\ tpc'[w] = "w_check"

C37_UrlOfOwnedProcess ==
    public_url # NoUrl => (process # NoProc /\ public_url = process)

(* neither the rotation scheduler nor a reconnect worker is at work *)
NoRotationOrReconnect ==
    /\ ~reconnecting
    /\ tpc[RefreshThread] = "f_sleep"
    /\ \A w \in Workers : tpc[w] = "w_off"

(* C38: while the child is running, a public URL is latched and no         *)
(* rotation or reconnect is in progress, the error message is not the      *)
(* "still initializing" of open() nor the "still updating" of the rotation *)
(* scheduler.                                                              *)
C38_NoStaleInitError ==
    (/\ IsRunning(process, pstate)
     /\ public_url # NoUrl
     /\ NoRotationOrReconnect)
        => error_message \notin {"still_initializing", "still_updating"}

(* C39: under fair scheduling of the rotation scheduler and the reconnect  *)
(* workers, every state with reconnecting = true is followed by a state    *)
(* with reconnecting = false.                                              *)
C39_ReconnectingClears == reconnecting ~> ~reconnecting

C39_Witness ==
    /\ reconnecting
    /\ \E w \in Workers : tpc[w] = "o_ret" /\ ~tok[w] /\ attempt[w] = max_reconnect_attempts

(***************************************************************************)
(* Properties of the locks.                                                *)
(***************************************************************************)

(* the thread waits for a lock that another thread, or itself, owns *)
LockBlocked(t) ==
    \/ lmode[t] = "run" /\ LockOp(t) = "acq_lock" /\ mgrLockOwner # NoThread
    \/ lmode[t] = "run" /\ LockOp(t) = "acq_cond" /\ busLockOwner # NoThread
    \/ lmode[t] = "woken" /\ busLockOwner # NoThread

(* the owner of the lock the blocked thread waits for *)
LockAwaited(t) ==
    IF lmode[t] = "run" /\ LockOp(t) = "acq_lock" THEN mgrLockOwner ELSE busLockOwner

(* the owner u of the awaited lock is another thread that is running and   *)
(* either can step or awaits a lock whose owner is a third thread that is  *)
(* running and can step                                                    *)
LockChainEnds(t) ==
    LET u == LockAwaited(t) IN
        /\ u # t
        /\ lmode[u] = "run"
        /\ LockBlocked(u) =>
              /\ LockAwaited(u) \notin {t, u}
              /\ lmode[LockAwaited(u)] = "run"
              /\ ~LockBlocked(LockAwaited(u))

(* C40: the manager lock is acquired only by a thread that owns neither    *)
(* lock (so the bus lock is only ever taken after the manager lock, never  *)
(* before it, and the manager lock is never taken twice); a thread that    *)
(* waits for a lock is at the start of a chain of at most two waiting      *)
(* threads that ends in a running thread which can take a step; no thread  *)
(* sleeps in the bus while owning a lock.                                  *)
C40_LockOrderNoDeadlock ==
    \A t \in LockThreads :
        /\ (lmode[t] = "run" /\ LockOp(t) = "acq_lock") =>
              (busLockOwner # t /\ mgrLockOwner # t)
        /\ LockBlocked(t) => LockChainEnds(t)
        /\ lmode[t] # "run" => (mgrLockOwner # t /\ busLockOwner # t)

C40_Witness ==
    \E t, u, v \in LockThreads :
        /\ mgrLockOwner = t
        /\ LockOp(t) = "acq_cond"
        /\ busLockOwner = u
        /\ lprog[u] = Program("wait_for_change")
        /\ LockOp(v) = "acq_lock"
        /\ LockBlocked(t)
        /\ LockBlocked(v)

====
